---- MODULE Spec2Model ----
(***************************************************************************)
(* The timer state machine of the focus timer: the reducer timerReducer    *)
(* of src/src/hooks/useTimerState.js (the persistence-aware reducer,       *)
(* lines 128-323), the hook's restore and save effects around it, the      *)
(* wall clock it reads through Date.now(), and the active_timer record of  *)
(* localStorage.                                                           *)
(*                                                                         *)
(* Times are milliseconds, durations and remaining are seconds, as in the  *)
(* source.  The hook's actions are callable in every status: the reducer   *)
(* is what decides what each one does there.                               *)
(***************************************************************************)
EXTENDS Integers, Sequences, FiniteSets, TLC

VARIABLES
    state,            \* the reducer's state (useReducer), a TimerState record
    storage,          \* localStorage item zen_timer_active_timer: <<>> (absent) or <<value>>
    now,              \* Date.now(), ms
    mounted,          \* the hook is mounted (isInitialized.current after the restore effect)
    initialDuration,  \* useTimerState's argument, settings.defaultDuration, minutes
    dispatched,       \* the last event: an action type, MOUNT, UNMOUNT, CLOCK or a handler
    payload,          \* action.minutes of the last action dispatched (0 when it has none)
    isDragging,       \* TimerCircle's isDragging state
    isInDropZone,     \* TimerCircle's isInDropZone state
    hasMoved,         \* TimerCircle's hasMoved ref
    longPressTimer,   \* TimerCircle's longPressTimerRef holds a pending timeout
    longPressTriggered, \* TimerCircle's longPressTriggeredRef
    pointerDown,      \* a finger (or the mouse button) is down on the circle
    pointerInZone,    \* the pointer's last position is in the top 120 px of the screen
    timerInterval,    \* ZenTimer's timerIntervalRef and the intervals that are set
    visibilityState,  \* document.visibilityState
    call,             \* a call of a utility function: its name and arguments
    result,           \* <<>> until the call has returned, then <<what it returned>>
    localStore,       \* localStorage as the storage utilities see it: key -> item
    lastSet,          \* per key, <<the value of the last set that returned true>>
    sessions,         \* what ZenTimer reported through onSessionStart and onSessionComplete
    focusStats,       \* localStorage item zen_timer_focus_stats: <<>> or <<value>>
    orphanTimers,     \* pending long-press timeouts that longPressTimerRef no longer holds
    breathing         \* the state of the BreathingExercise component and its phase timer

\* The state of the TimerCircle component and of the pointer over it.
gesture ==
    <<isDragging, isInDropZone, hasMoved, longPressTimer, longPressTriggered,
      pointerDown, pointerInZone, orphanTimers>>

\* The utility calls and the store they work on.
utilities == <<call, result, localStore, lastSet, breathing>>

\* The sessions reported and the statistics stored for them.
recorded == <<sessions, focusStats>>

vars == <<state, storage, now, mounted, initialDuration, dispatched, payload,
          isDragging, isInDropZone, hasMoved, longPressTimer, longPressTriggered,
          pointerDown, pointerInZone, timerInterval, visibilityState,
          call, result, localStore, lastSet, sessions, focusStats, orphanTimers,
          breathing>>

----------------------------------------------------------------------------
(* Bounds of the model.                                                    *)

\* The wall clock at the start of the run, ms (any positive value).
ClockStart == 1000
\* The sub-second grain of the modelled clock, ms.
ClockGrain == 500
\* How many whole minutes past ClockStart the clock is observed at.
MaxMinuteJumps == 2

\* The instants at which the clock is read: on a whole minute past
\* ClockStart, and one grain later.
Instants ==
    { ClockStart + g * ClockGrain + m * 60 * 1000 :
        g \in {0, 1}, m \in 0..MaxMinuteJumps }

\* The minutes a caller passes to setDuration: below 1..120, its two ends, a
\* value inside, and above.
MinutesInputs == {0, 1, 2, 120, 121}

\* settings.defaultDuration values the hook is created with.
InitialDurations == {25}

----------------------------------------------------------------------------
(* Values.                                                                 *)

\* JavaScript's null in a timestamp field.
Null == -1

Max(a, b) == IF a >= b THEN a ELSE b
Min(a, b) == IF a <= b THEN a ELSE b

\* A timestamp field is truthy when it is neither null nor 0.
Truthy(x) == x # Null /\ x # 0

Statuses ==
    {"idle", "adjusting", "committing", "running", "paused", "completed", "settings"}

INITIAL_STATE ==
    [ status    |-> "idle",
      duration  |-> 25 * 60,
      remaining |-> 25 * 60,
      startTime |-> Null,
      pausedAt  |-> Null,
      endTime   |-> Null ]

\* useReducer's initial state: INITIAL_STATE with the hook's initial duration.
InitialTimer(minutes) ==
    [INITIAL_STATE EXCEPT !.duration = minutes * 60, !.remaining = minutes * 60]

----------------------------------------------------------------------------
(* The reducer, one operator per case of timerReducer.  s is the state,    *)
(* t the value Date.now() returns during the call.                         *)

\* A remaining that counts ticks instead of reading the clock.
calculateRemaining_CountsTicks(s, t) ==
    IF s.status = "running" THEN Max(0, s.remaining - 1) ELSE s.remaining

calculateRemaining(s, t) ==
    IF s.status = "running" /\ Truthy(s.endTime)
    THEN Max(0, (s.endTime - t) \div 1000)
    ELSE s.remaining

\* A restore that completes only strictly after endTime.
RESTORE_StrictlyAfter(s, saved, t) ==
    IF saved = <<>> THEN s
    ELSE LET r == saved[1] IN
         IF r.status = "running" /\ Truthy(r.endTime)
         THEN IF t > r.endTime
              THEN [r EXCEPT !.status = "completed", !.remaining = 0]
              ELSE [r EXCEPT !.remaining = (r.endTime - t) \div 1000]
         ELSE r

\* A restore that also charges a paused timer for the time since its pause.
RESTORE_ChargesPause(s, saved, t) ==
    IF saved = <<>> THEN s
    ELSE LET r == saved[1] IN
         IF r.status = "running" /\ Truthy(r.endTime)
         THEN IF t >= r.endTime
              THEN [r EXCEPT !.status = "completed", !.remaining = 0]
              ELSE [r EXCEPT !.remaining = (r.endTime - t) \div 1000]
         ELSE IF r.status = "paused" /\ Truthy(r.pausedAt)
         THEN [r EXCEPT !.remaining = Max(0, r.remaining - ((t - r.pausedAt) \div 1000))]
         ELSE r

\* saved is <<>> (null) or <<record>>.
RESTORE(s, saved, t) ==
    IF saved = <<>> THEN s
    ELSE LET r == saved[1] IN
         IF r.status = "running" /\ Truthy(r.endTime)
         THEN IF t >= r.endTime
              THEN [r EXCEPT !.status = "completed", !.remaining = 0]
              ELSE [r EXCEPT !.remaining = (r.endTime - t) \div 1000]
         ELSE r

START_ADJUST(s) == [s EXCEPT !.status = "adjusting"]

\* A SET_DURATION that takes the minutes as given.
SET_DURATION_NoClamp(s, minutes) ==
    [s EXCEPT !.duration = minutes * 60, !.remaining = minutes * 60]

SET_DURATION(s, minutes) ==
    LET m       == Max(1, Min(120, minutes))
        seconds == m * 60
    IN  [s EXCEPT !.duration = seconds, !.remaining = seconds]

END_ADJUST(s) == [s EXCEPT !.status = "idle"]

ENTER_DROP_ZONE(s) == [s EXCEPT !.status = "committing"]

EXIT_DROP_ZONE(s) == [s EXCEPT !.status = "adjusting"]

\* A commit whose endTime adds the duration as if it were milliseconds.
COMMIT_EndInSeconds(s, t) ==
    [s EXCEPT !.status    = "running",
              !.startTime = t,
              !.endTime   = t + s.duration,
              !.remaining = s.duration]

COMMIT(s, t) ==
    [s EXCEPT !.status    = "running",
              !.startTime = t,
              !.endTime   = t + (s.duration * 1000),
              !.remaining = s.duration]

\* A tick that recomputes remaining and never completes.
TICK_StaysRunning(s, t) ==
    IF s.status # "running" THEN s
    ELSE [s EXCEPT !.remaining = calculateRemaining(s, t)]

\* A tick without the status guard.
TICK_Unguarded(s, t) ==
    LET newRemaining == calculateRemaining(s, t) IN
    IF newRemaining <= 0
    THEN [s EXCEPT !.status = "completed", !.remaining = 0]
    ELSE [s EXCEPT !.remaining = newRemaining]

\* The tick of the reducer of lines 1-126: one second less per tick.
TICK_CountsDown(s, t) ==
    IF s.status # "running" THEN s
    ELSE IF s.remaining - 1 <= 0
         THEN [s EXCEPT !.status = "completed", !.remaining = 0]
         ELSE [s EXCEPT !.remaining = s.remaining - 1]

TICK(s, t) ==
    IF s.status # "running" THEN s
    ELSE LET newRemaining == calculateRemaining(s, t) IN
         IF newRemaining <= 0
         THEN [s EXCEPT !.status = "completed", !.remaining = 0]
         ELSE [s EXCEPT !.remaining = newRemaining]

\* A pause that leaves endTime in place.
PAUSE_KeepsEndTime(s, t) ==
    IF s.status # "running" THEN s
    ELSE [s EXCEPT !.status    = "paused",
                   !.pausedAt  = t,
                   !.remaining = calculateRemaining(s, t)]

PAUSE(s, t) ==
    IF s.status # "running" THEN s
    ELSE [s EXCEPT !.status    = "paused",
                   !.pausedAt  = t,
                   !.remaining = calculateRemaining(s, t),
                   !.endTime   = Null]

\* A resume that restarts the whole duration.
RESUME_FromDuration(s, t) ==
    IF s.status # "paused" THEN s
    ELSE [s EXCEPT !.status   = "running",
                   !.pausedAt = Null,
                   !.endTime  = t + (s.duration * 1000)]

\* A resume that sets no endTime.
RESUME_NoEndTime(s, t) ==
    IF s.status # "paused" THEN s
    ELSE [s EXCEPT !.status = "running", !.pausedAt = Null]

RESUME(s, t) ==
    IF s.status # "paused" THEN s
    ELSE [s EXCEPT !.status   = "running",
                   !.pausedAt = Null,
                   !.endTime  = t + (s.remaining * 1000)]

\* A cancel that only changes the status and the remaining time.
CANCEL_KeepsTimestamps(s) ==
    [s EXCEPT !.status = "idle", !.remaining = s.duration]

\* case 'CANCEL': case 'RESET': one body.
CANCEL(s) ==
    [INITIAL_STATE EXCEPT !.duration = s.duration, !.remaining = s.duration]

RESET(s) == CANCEL(s)

OPEN_SETTINGS(s) == [s EXCEPT !.status = "settings"]

CLOSE_SETTINGS(s) == [s EXCEPT !.status = "idle"]

COMPLETE_ACKNOWLEDGED(s) ==
    [INITIAL_STATE EXCEPT !.duration = s.duration, !.remaining = s.duration]

ActionTypes ==
    {"START_ADJUST", "SET_DURATION", "END_ADJUST", "ENTER_DROP_ZONE",
     "EXIT_DROP_ZONE", "COMMIT", "TICK", "PAUSE", "RESUME", "CANCEL", "RESET",
     "OPEN_SETTINGS", "CLOSE_SETTINGS", "COMPLETE_ACKNOWLEDGED"}

\* a is [type |-> ..., minutes |-> ...]; minutes is read by SET_DURATION only.
timerReducer(s, a, t) ==
    CASE a.type = "START_ADJUST"          -> START_ADJUST(s)
      [] a.type = "SET_DURATION"          -> SET_DURATION(s, a.minutes)
      [] a.type = "END_ADJUST"            -> END_ADJUST(s)
      [] a.type = "ENTER_DROP_ZONE"       -> ENTER_DROP_ZONE(s)
      [] a.type = "EXIT_DROP_ZONE"        -> EXIT_DROP_ZONE(s)
      [] a.type = "COMMIT"                -> COMMIT(s, t)
      [] a.type = "TICK"                  -> TICK(s, t)
      [] a.type = "PAUSE"                 -> PAUSE(s, t)
      [] a.type = "RESUME"                -> RESUME(s, t)
      [] a.type = "CANCEL"                -> CANCEL(s)
      [] a.type = "RESET"                 -> RESET(s)
      [] a.type = "OPEN_SETTINGS"         -> OPEN_SETTINGS(s)
      [] a.type = "CLOSE_SETTINGS"        -> CLOSE_SETTINGS(s)
      [] a.type = "COMPLETE_ACKNOWLEDGED" -> COMPLETE_ACKNOWLEDGED(s)
      [] OTHER                            -> s

\* The reducer returned the very object it was given: React bails out, no
\* render, no effect.
ReturnsSameObject(s, a) ==
    \/ a.type \in {"TICK", "PAUSE"} /\ s.status # "running"
    \/ a.type = "RESUME" /\ s.status # "paused"

----------------------------------------------------------------------------
(* The hook: its effects and its actions.                                  *)

\* The storage value of a state: JavaScript's null is <<>>, an object <<o>>.
\* The stored item is <<>> while the key is absent and <<v>> once a value v
\* was written (JSON.parse of JSON.stringify of such a value gives it back:
\* its fields are strings, integers and null).  An item <<v, "unparsable">>
\* is a text that was not written by setStorageItem and that JSON.parse
\* rejects.
Unparsable == << <<>>, "unparsable" >>

\* The number of decimal digits of n >= 0.
RECURSIVE Digits(_)
Digits(n) == IF n < 10 THEN 1 ELSE 1 + Digits(n \div 10)

\* The length of a status string.
StatusLength(status) ==
    CASE status = "idle"       -> 4
      [] status = "adjusting"  -> 9
      [] status = "committing" -> 10
      [] status = "running"    -> 7
      [] status = "paused"     -> 6
      [] status = "completed"  -> 9
      [] status = "settings"   -> 8
      [] OTHER                 -> 0

\* The length of JSON.stringify of a number-or-null field.
FieldLength(x) == IF x = Null THEN 4 ELSE Digits(x)

\* JSON.stringify(value).length: "null", or the object's braces, its six
\* quoted keys with their colons, five commas, and the values.  A value that
\* is not a timer state is written <<o, n>>, n the length of its JSON text.
JsonLength(value) ==
    IF value = <<>> THEN 4
    ELSE IF Len(value) = 2 THEN value[2]
    ELSE LET o == value[1] IN
         2 + (8 + 10 + 11 + 11 + 10 + 9) + 6 + 5
           + (StatusLength(o.status) + 2) + FieldLength(o.duration)
           + FieldLength(o.remaining) + FieldLength(o.startTime)
           + FieldLength(o.pausedAt) + FieldLength(o.endTime)

MAX_VALUE_LENGTH == 1000

\* getStorageItem(key, defaultValue) on the item stored under the key.
getStorageItem(item, defaultValue) ==
    IF item = <<>> THEN defaultValue
    ELSE IF JsonLength(item[1]) > MAX_VALUE_LENGTH THEN defaultValue
    ELSE IF Len(item) > 1 THEN defaultValue
    ELSE item[1]

\* setStorageItem(key, value): the item stored under the key afterwards.
setStorageItem(item, value) ==
    IF JsonLength(value) > MAX_VALUE_LENGTH THEN item ELSE <<value>>

\* A save effect that writes running and paused states and never clears.
saveEffect_NeverClears(item, s) ==
    IF s.status = "running" \/ s.status = "paused"
    THEN setStorageItem(item, <<s>>)
    ELSE item

\* The save effect on state s: the item stored afterwards.
saveEffect(item, s) ==
    IF s.status = "running" \/ s.status = "paused"
    THEN setStorageItem(item, <<s>>)
    ELSE setStorageItem(item, <<>>)

\* A restore effect that dispatches RESTORE with whatever record it reads.
restoreEffect_AnyStatus(item) == getStorageItem(item, <<>>)

\* The restore effect's read and test: the saved value RESTORE is dispatched
\* with, <<>> when it is not dispatched.
restoreEffect(item) ==
    LET saved == getStorageItem(item, <<>>) IN
    IF saved # <<>> /\ (saved[1].status = "running" \/ saved[1].status = "paused")
    THEN saved
    ELSE <<>>

\* dispatch(a) by a mounted hook, the render and the save effect that follow.
Dispatch(a) ==
    /\ mounted
    /\ state' = timerReducer(state, a, now)
    /\ storage' = IF ReturnsSameObject(state, a)
                  THEN storage
                  ELSE saveEffect(storage, timerReducer(state, a, now))
    /\ dispatched' = a.type
    /\ payload' = a.minutes
    /\ UNCHANGED <<now, mounted, initialDuration, gesture, timerInterval,
                   visibilityState, utilities, recorded>>

Plain(type) == [type |-> type, minutes |-> 0]

startAdjust == Dispatch(Plain("START_ADJUST"))

setDuration ==
    \E minutes \in MinutesInputs :
        Dispatch([type |-> "SET_DURATION", minutes |-> minutes])

endAdjust == Dispatch(Plain("END_ADJUST"))

enterDropZone == Dispatch(Plain("ENTER_DROP_ZONE"))

exitDropZone == Dispatch(Plain("EXIT_DROP_ZONE"))

commit == Dispatch(Plain("COMMIT"))

tick == Dispatch(Plain("TICK"))

pause == Dispatch(Plain("PAUSE"))

resume == Dispatch(Plain("RESUME"))

cancel == Dispatch(Plain("CANCEL"))

reset == Dispatch(Plain("RESET"))

openSettings == Dispatch(Plain("OPEN_SETTINGS"))

closeSettings == Dispatch(Plain("CLOSE_SETTINGS"))

acknowledgeComplete == Dispatch(Plain("COMPLETE_ACKNOWLEDGED"))

\* A mount whose first save runs before the record is read.
mountEffects_SaveFirst(first, item, t) ==
    LET afterFirstSave == saveEffect(item, first)
        saved          == restoreEffect(afterFirstSave)
        restored       == RESTORE(first, saved, t)
    IN  [ state   |-> restored,
          storage |-> IF saved # <<>>
                      THEN saveEffect(afterFirstSave, restored)
                      ELSE afterFirstSave ]

\* What mounting the hook does, in the order the code does it: the restore
\* effect reads the record and dispatches RESTORE when the record is of a
\* running or paused timer; the save effect of the first render then runs on
\* the initial state; the RESTORE is reduced at time t and the save effect
\* runs on its result.
mountEffects(first, item, t) ==
    LET saved          == restoreEffect(item)
        afterFirstSave == saveEffect(item, first)
        restored       == RESTORE(first, saved, t)
    IN  [ state   |-> restored,
          storage |-> IF saved # <<>>
                      THEN saveEffect(afterFirstSave, restored)
                      ELSE afterFirstSave ]

\* The hook mounts (page load, or the timer tab shown again).
mountHook ==
    /\ ~mounted
    /\ LET m == mountEffects(InitialTimer(initialDuration), storage, now)
       IN  /\ state' = m.state
           /\ storage' = m.storage
    /\ mounted' = TRUE
    /\ dispatched' = "MOUNT"
    /\ payload' = 0
    /\ UNCHANGED <<now, initialDuration, gesture, visibilityState, utilities>>

\* The hook mounts, used on its own.
Mount == mountHook /\ UNCHANGED <<timerInterval, recorded>>

\* The hook unmounts (tab switch, page closed): its state is gone, the
\* stored record stays.
unmountHook ==
    /\ mounted
    /\ mounted' = FALSE
    /\ state' = InitialTimer(initialDuration)
    /\ dispatched' = "UNMOUNT"
    /\ payload' = 0
    /\ isDragging' = FALSE
    /\ isInDropZone' = FALSE
    /\ hasMoved' = FALSE
    /\ longPressTimer' = FALSE
    /\ longPressTriggered' = FALSE
    /\ pointerDown' = FALSE
    /\ orphanTimers' = 0
    /\ UNCHANGED <<storage, now, initialDuration, pointerInZone, visibilityState,
                   utilities, recorded>>

\* The hook unmounts, used on its own.
Unmount == unmountHook /\ UNCHANGED timerInterval

\* Wall-clock time passes, up to one of the given instants.
ClockTo(instants) ==
    /\ \E t \in instants : t > now /\ now' = t
    /\ dispatched' = "CLOCK"
    /\ payload' = 0
    /\ UNCHANGED <<state, storage, mounted, initialDuration, gesture, timerInterval,
                   visibilityState, utilities, recorded>>

\* Wall-clock time passes.
AdvanceClock == ClockTo(Instants)

\* No interval is set and timerIntervalRef.current is null.
NoInterval == [ref |-> "null", active |-> 0]

\* No utility call is being made.
NoCall == [fn |-> "none"]

\* ZenTimer rendered without onSessionStart and onSessionComplete (both are
\* optional): nothing is reported.  With them, `reporting` is TRUE and the
\* record counts the calls of each, the seconds onSessionComplete was given
\* and the calls of notifyTimerComplete.
NoSessions ==
    [reporting |-> FALSE, started |-> 0, completed |-> 0, time |-> 0, notified |-> 0]

\* BreathingExercise as it mounts: useState(false), 'ready', 'calm', 0, and
\* no timeout pending (left is the seconds until it runs, elapsed the
\* seconds since the phase was entered).
BreathingReady ==
    [isActive |-> FALSE, phase |-> "ready", pattern |-> "calm", cycleCount |-> 0,
     timer |-> FALSE, left |-> 0, elapsed |-> 0]

\* Nothing beside the timer has happened.
Quiet ==
    /\ sessions = NoSessions
    /\ focusStats = <<>>
    /\ orphanTimers = 0
    /\ breathing = BreathingReady

\* What the timer does not touch, before anything happened: the page is
\* visible, no interval is set, no utility call is made.
Untouched ==
    /\ timerInterval = NoInterval
    /\ visibilityState = "visible"
    /\ call = NoCall
    /\ result = <<>>
    /\ localStore = <<>>
    /\ lastSet = <<>>
    /\ Quiet

Init ==
    /\ Untouched
    /\ initialDuration \in InitialDurations
    /\ state = InitialTimer(initialDuration)
    /\ storage = <<>>
    /\ now = ClockStart
    /\ mounted = FALSE
    /\ dispatched = "UNMOUNT"
    /\ payload = 0
    /\ isDragging = FALSE
    /\ isInDropZone = FALSE
    /\ hasMoved = FALSE
    /\ longPressTimer = FALSE
    /\ longPressTriggered = FALSE
    /\ pointerDown = FALSE
    /\ pointerInZone = FALSE

Next ==
    \/ Mount
    \/ Unmount
    \/ AdvanceClock
    \/ startAdjust
    \/ setDuration
    \/ endAdjust
    \/ enterDropZone
    \/ exitDropZone
    \/ commit
    \/ tick
    \/ pause
    \/ resume
    \/ cancel
    \/ reset
    \/ openSettings
    \/ closeSettings
    \/ acknowledgeComplete

Spec == Init /\ [][Next]_vars

\* The records of a timer that is neither running nor paused: what the save
\* effect never writes, but the key may hold (another build of the page, a
\* hand-edited store).
ForeignRecords ==
    { [INITIAL_STATE EXCEPT !.status = status, !.duration = 60, !.remaining = 30] :
        status \in Statuses \ {"running", "paused"} }

\* What the hook may find under its key when the page loads: nothing, a
\* stored null, a text that does not parse, a record of another status.
StoredItems ==
    {<<>>, << <<>> >>, Unparsable} \cup { << <<o>> >> : o \in ForeignRecords }

\* The page loads over any of these items.
InitStored ==
    /\ Untouched
    /\ initialDuration \in InitialDurations
    /\ state = InitialTimer(initialDuration)
    /\ storage \in StoredItems
    /\ now = ClockStart
    /\ mounted = FALSE
    /\ dispatched = "UNMOUNT"
    /\ payload = 0
    /\ isDragging = FALSE
    /\ isInDropZone = FALSE
    /\ hasMoved = FALSE
    /\ longPressTimer = FALSE
    /\ longPressTriggered = FALSE
    /\ pointerDown = FALSE
    /\ pointerInZone = FALSE

SpecStored == InitStored /\ [][Next]_vars

----------------------------------------------------------------------------
(* The focus statistics: the record useRecordStart and useRecordSession    *)
(* keep under `focus_stats`.  The model's clock stays within one calendar  *)
(* day: weeklyData is the minutes of that day (the six other days are 0)   *)
(* and lastSessionDate is Null or that day.  A history entry is its type   *)
(* and its duration; its id and its timestamp count in its length.         *)

getDefaultStats ==
    [ totalFocusTime    |-> 0,
      sessionsCompleted |-> 0,
      sessionsStarted   |-> 0,
      currentStreak     |-> 0,
      longestStreak     |-> 0,
      weeklyData        |-> 0,
      lastSessionDate   |-> Null,
      history           |-> <<>> ]

\* The day of the run, as getTodayKey() gives it.
Today == 1

\* JSON.stringify(entry).length: {"id":"mvyz2hfp","type":"start",
\* "duration":1500,"timestamp":"2026-11-02T06:12:31.000Z","completed":false}
\* is 105 characters long, with "complete" and true it is 107.
EntryLength(entry) ==
    (IF entry.type = "start" THEN 101 ELSE 103) + Digits(entry.duration)

RECURSIVE HistoryLength(_)
HistoryLength(history) ==
    IF history = <<>> THEN 0
    ELSE EntryLength(Head(history))
           + (IF Len(history) > 1 THEN 1 ELSE 0)
           + HistoryLength(Tail(history))

\* JSON.stringify(stats).length: the default record is 163 characters long;
\* a date in place of null adds 8.
StatsLength(stats) ==
    163 + (Digits(stats.totalFocusTime) - 1)
        + (Digits(stats.sessionsCompleted) - 1)
        + (Digits(stats.sessionsStarted) - 1)
        + (Digits(stats.currentStreak) - 1)
        + (Digits(stats.longestStreak) - 1)
        + (Digits(stats.weeklyData) - 1)
        + (IF stats.lastSessionDate = Null THEN 0 ELSE 8)
        + HistoryLength(stats.history)

\* The value handed to setStorageItem, with the length of its text.
StatsValue(stats) == <<stats, StatsLength(stats)>>

\* getStorageItem(STATS_KEY, null) || getDefaultStats()
storedStats(item) ==
    LET stored == getStorageItem(item, <<>>)
    IN  IF stored = <<>> THEN getDefaultStats ELSE stored[1]

\* [entry, ...history.slice(0, 99)]
withEntry(entry, history) ==
    <<entry>> \o SubSeq(history, 1, Min(Len(history), 99))

\* The callback of useRecordStart: the item stored afterwards.
recordStart(item, durationSeconds) ==
    LET stored == storedStats(item)
        newStats ==
          [ stored EXCEPT
              !.sessionsStarted = @ + 1,
              !.history = withEntry([type |-> "start", duration |-> durationSeconds], @) ]
    IN  setStorageItem(item, StatsValue(newStats))

\* The callback of useRecordSession: the item stored afterwards.  The day
\* before the run has no session, so a first session of the day starts the
\* streak at 1.
recordSession(item, durationSeconds) ==
    LET stored == storedStats(item)
        newStats ==
          [ stored EXCEPT
              !.totalFocusTime = @ + durationSeconds,
              !.sessionsCompleted = @ + 1,
              !.currentStreak = IF stored.lastSessionDate # Today THEN 1 ELSE @,
              !.longestStreak = Max(@, IF stored.lastSessionDate # Today
                                       THEN 1 ELSE stored.currentStreak),
              !.weeklyData = @ + (durationSeconds + 30) \div 60,
              !.lastSessionDate = Today,
              !.history = withEntry([type |-> "complete", duration |-> durationSeconds], @) ]
    IN  setStorageItem(item, StatsValue(newStats))

\* A completion effect without the test of the status.
completionEffect_AnyStatus(before, after) ==
    before.status # after.status \/ before.duration # after.duration

\* The completion effect of ZenTimer runs its body after a render in which
\* status or duration changed (its other dependencies do not change while
\* the timer is mounted), and the body acts when the status is completed.
completionEffect(before, after) ==
    /\ after.status = "completed"
    /\ (before.status # after.status \/ before.duration # after.duration)

\* How many sessions the model lets be reported.
MaxSessions == 2

\* The sessions reported after onSessionStart was called or not, and after
\* the completion effect acted (with the duration of the state) or not.
reported(log, start, completes, duration) ==
    IF ~log.reporting THEN log
    ELSE [ log EXCEPT
             !.started = @ + (IF start THEN 1 ELSE 0),
             !.completed = @ + (IF completes THEN 1 ELSE 0),
             !.time = @ + (IF completes THEN duration ELSE 0),
             !.notified = @ + (IF completes THEN 1 ELSE 0) ]

\* The statistics stored after the same.
recordedStats(log, item, start, startDuration, completes, duration) ==
    IF ~log.reporting THEN item
    ELSE LET afterStart == IF start THEN recordStart(item, startDuration) ELSE item
         IN  IF completes THEN recordSession(afterStart, duration) ELSE afterStart

----------------------------------------------------------------------------
(* The timer screen: the pointer handlers of TimerCircle, the handlers of  *)
(* ZenTimer they call, ZenTimer's buttons and its tick interval.  One      *)
(* pointer at a time; every event is handled in the render that follows    *)
(* the event before it.                                                    *)

\* The minutes handleTouchMove passes on: Math.max(5, snapped), snapped a
\* multiple of 5 up to 60.
DragMinutes == {5, 60}

\* The preset buttons.
PRESETS == {5, 15, 25, 45, 60}

\* How a release reads against where and when the touch started: a flick
\* (dy < -50 at more than 800 px/s), a tap (less than 15 px away, between 50
\* and 300 ms later), or neither.
ReleaseKinds == {"flick", "tap", "other"}

\* The reducer applied to the actions one handler dispatches, in order.
RECURSIVE reduceAll(_, _, _)
reduceAll(s, acts, t) ==
    IF acts = <<>> THEN s
    ELSE reduceAll(timerReducer(s, Head(acts), t), Tail(acts), t)

\* Every one of the actions handed the reducer's state back as it was.
RECURSIVE bailsOut(_, _)
bailsOut(s, acts) ==
    acts = <<>> \/ (ReturnsSameObject(s, Head(acts)) /\ bailsOut(s, Tail(acts)))

\* How many intervals the model lets be set at once (one is what the code
\* is meant to keep).
MaxIntervals == 3

\* timerInterval is [ref, active]: ref tells what timerIntervalRef.current
\* holds, "null", the id of an interval that is set ("live") or the id of
\* one that was cleared ("cleared"); active counts the intervals that are
\* set.

\* The cleanup of the tick effect: clearInterval of the id in the ref, which
\* stays in the ref.
tickCleanup(iv) ==
    IF iv.ref = "live"
    THEN [ref |-> "cleared", active |-> iv.active - 1]
    ELSE iv

\* The body of the tick effect, for the status of the render.
tickBody(iv, status) ==
    IF status = "running"
    THEN [ref |-> "live", active |-> iv.active + 1]
    ELSE IF iv.ref = "null" THEN iv
    ELSE [ref |-> "null",
          active |-> IF iv.ref = "live" THEN iv.active - 1 ELSE iv.active]

\* A tick effect that returns no cleanup.
tickEffect_NoCleanup(iv, status) == tickBody(iv, status)

\* The tick effect after a render: its dependency `actions` is a new object
\* in every render, so the cleanup of the last run and then the body run
\* each time.
tickEffect(iv, status) == tickBody(tickCleanup(iv), status)

\* A handler of the screen dispatching acts, after calling onSessionStart
\* with the duration or not (start): one render, and one run of the save
\* effect, of the tick effect and of the completion effect, for the batch.
Rendered(name, acts, start) ==
    LET reduced == reduceAll(state, acts, now)
        completes == ~bailsOut(state, acts) /\ completionEffect(state, reduced)
    IN
    /\ sessions' = reported(sessions, start, completes, reduced.duration)
    /\ sessions'.started <= MaxSessions
    /\ sessions'.completed <= MaxSessions
    /\ focusStats' = recordedStats(sessions, focusStats, start, state.duration,
                                   completes, reduced.duration)
    /\ state' = reduced
    /\ storage' = IF bailsOut(state, acts) THEN storage
                  ELSE saveEffect(storage, reduced)
    /\ timerInterval' = IF bailsOut(state, acts) THEN timerInterval
                        ELSE tickEffect(timerInterval, reduced.status)
    /\ timerInterval'.active <= MaxIntervals
    /\ dispatched' = name
    /\ payload' = IF acts = <<>> THEN 0 ELSE acts[1].minutes
    /\ UNCHANGED <<now, mounted, initialDuration, utilities>>

Render(name, acts) == Rendered(name, acts, FALSE)

Handler(name, acts) == Render(name, acts) /\ UNCHANGED visibilityState

\* ZenTimer's handleTap calls onSessionStart(state.duration) before the
\* commit, in idle.
tapStarts(status) == status = "idle"

\* A handleTap that leaves a completed countdown alone.
handleTap_NoAcknowledge(status) ==
    CASE status = "idle"      -> <<Plain("COMMIT")>>
      [] status = "running"   -> <<Plain("PAUSE")>>
      [] status = "paused"    -> <<Plain("RESUME")>>
      [] OTHER                -> <<>>

\* ZenTimer's handleTap: what a tap dispatches in the status it was
\* rendered with.
handleTap(status) ==
    CASE status = "idle"      -> <<Plain("COMMIT")>>
      [] status = "running"   -> <<Plain("PAUSE")>>
      [] status = "paused"    -> <<Plain("RESUME")>>
      [] status = "completed" -> <<Plain("COMPLETE_ACKNOWLEDGED")>>
      [] OTHER                -> <<>>

\* touchstart / mousedown on the circle, on its edge band or not, in the top
\* 120 px of the screen or not.
handleTouchStart ==
    /\ mounted
    /\ ~pointerDown
    /\ pointerDown' = TRUE
    /\ \E onEdge \in BOOLEAN, inZone \in BOOLEAN :
          /\ pointerInZone' = inZone
          /\ IF state.status = "settings"
             THEN /\ Handler("handleTouchStart", <<>>)
                  /\ UNCHANGED <<isDragging, hasMoved, longPressTimer, longPressTriggered>>
             ELSE /\ hasMoved' = FALSE
                  /\ longPressTriggered' = FALSE
                  /\ IF onEdge /\ state.status \in {"idle", "adjusting"}
                     THEN /\ isDragging' = TRUE
                          /\ Handler("handleTouchStart", <<Plain("START_ADJUST")>>)
                          /\ UNCHANGED longPressTimer
                     ELSE /\ longPressTimer' = (longPressTimer \/ state.status = "idle")
                          /\ Handler("handleTouchStart", <<>>)
                          /\ UNCHANGED isDragging
    /\ UNCHANGED <<isInDropZone, orphanTimers>>

\* touchmove / mousemove: more than 10 px from the start or not, at an angle
\* that reads as some minutes, in the top 120 px or not.
handleTouchMove ==
    /\ mounted
    /\ pointerDown
    /\ \E far \in BOOLEAN, minutes \in DragMinutes, inZone \in BOOLEAN :
          /\ pointerInZone' = inZone
          /\ hasMoved' = (hasMoved \/ far)
          /\ longPressTimer' = (longPressTimer /\ ~far)
          /\ IF ~isDragging
             THEN /\ Handler("handleTouchMove", <<>>)
                  /\ UNCHANGED isInDropZone
             ELSE /\ isInDropZone' = inZone
                  /\ Handler("handleTouchMove",
                        <<[type |-> "SET_DURATION", minutes |-> minutes]>>
                        \o (IF inZone = isInDropZone THEN <<>>
                            ELSE IF inZone THEN <<Plain("ENTER_DROP_ZONE")>>
                            ELSE <<Plain("EXIT_DROP_ZONE")>>))
    /\ UNCHANGED <<isDragging, longPressTriggered, pointerDown, orphanTimers>>

\* touchend / mouseup, where the pointer last was.
handleTouchEnd ==
    /\ mounted
    /\ pointerDown
    /\ pointerDown' = FALSE
    /\ longPressTimer' = FALSE
    /\ \E kind \in ReleaseKinds :
          IF state.status = "running" /\ kind = "flick"
          THEN /\ Handler("handleTouchEnd", <<Plain("CANCEL")>>)
               /\ UNCHANGED <<isDragging, isInDropZone>>
          ELSE IF isDragging
          THEN /\ isDragging' = FALSE
               /\ isInDropZone' = FALSE
               /\ Handler("handleTouchEnd",
                     IF isInDropZone THEN <<Plain("COMMIT")>>
                     ELSE <<Plain("END_ADJUST")>>)
          ELSE IF ~hasMoved /\ ~longPressTriggered /\ kind = "tap"
          THEN /\ Rendered("handleTouchEnd", handleTap(state.status),
                           tapStarts(state.status))
               /\ UNCHANGED <<isDragging, isInDropZone, visibilityState>>
          ELSE /\ Handler("handleTouchEnd", <<>>)
               /\ UNCHANGED <<isDragging, isInDropZone>>
    /\ UNCHANGED <<hasMoved, longPressTriggered, pointerInZone, orphanTimers>>

\* The 500 ms timeout of a press in idle runs: handleLongPress, as rendered
\* in idle, opens the settings.
longPressTimeout ==
    /\ mounted
    /\ longPressTimer
    /\ longPressTimer' = FALSE
    /\ longPressTriggered' = TRUE
    /\ Handler("handleLongPress", <<Plain("OPEN_SETTINGS")>>)
    /\ UNCHANGED <<isDragging, isInDropZone, hasMoved, pointerDown, pointerInZone,
                   orphanTimers>>

\* A preset button, shown in idle.
handlePresetSelect ==
    /\ mounted
    /\ state.status = "idle"
    /\ \E minutes \in PRESETS :
          Handler("handlePresetSelect", <<[type |-> "SET_DURATION", minutes |-> minutes]>>)
    /\ UNCHANGED gesture

\* The Reset Timer button, shown while running and while paused.
resetTimerButton ==
    /\ mounted
    /\ state.status \in {"running", "paused"}
    /\ Handler("resetTimerButton", <<Plain("CANCEL")>>)
    /\ UNCHANGED gesture

\* The settings overlay closes.
onClose ==
    /\ mounted
    /\ state.status = "settings"
    /\ Handler("onClose", <<Plain("CLOSE_SETTINGS")>>)
    /\ UNCHANGED gesture

\* The callback of an interval that is set runs: actions.tick().
intervalTick ==
    /\ mounted
    /\ timerInterval.active > 0
    /\ Handler("TICK", <<Plain("TICK")>>)
    /\ UNCHANGED gesture

\* A listener that dispatches nothing.
handleVisibility_Idle(visibility, status) == <<>>

\* The listener the hook's visibility effect registered in the last render.
handleVisibility(visibility, status) ==
    IF visibility = "visible" /\ status = "running"
    THEN <<Plain("TICK")>>
    ELSE <<>>

\* The page is hidden or shown again: visibilitychange.
visibilitychange ==
    /\ mounted
    /\ \E visibility \in {"visible", "hidden"} :
          /\ visibility # visibilityState
          /\ visibilityState' = visibility
          /\ Render("visibilitychange", handleVisibility(visibility, state.status))
    /\ UNCHANGED gesture

\* ZenTimer mounts: the hook mounts, and the tick effect runs after the
\* first render and after the render of a restored state.
mountZenTimer ==
    /\ mountHook
    /\ timerInterval' =
          LET first == tickBody(timerInterval, InitialTimer(initialDuration).status)
          IN  IF restoreEffect(storage) = <<>> THEN first
              ELSE tickEffect(first, state'.status)
    /\ LET completes == completionEffect(InitialTimer(initialDuration), state')
       IN  /\ sessions' = reported(sessions, FALSE, completes, state'.duration)
           /\ sessions'.completed <= MaxSessions
           /\ focusStats' = recordedStats(sessions, focusStats, FALSE, 0,
                                          completes, state'.duration)

\* ZenTimer unmounts: the hook unmounts and the cleanup of the tick effect
\* runs; the ref goes with the component.
unmountZenTimer ==
    /\ unmountHook
    /\ timerInterval' = [ref |-> "null", active |-> tickCleanup(timerInterval).active]

\* The minutes between the instants the screen is observed at: the shortest
\* session the screen sets.
ScreenMinuteStep == 5

\* The instants at which the screen is observed.
ScreenInstants ==
    { ClockStart + g * ClockGrain + m * ScreenMinuteStep * 60 * 1000 :
        g \in {0, 1}, m \in 0..MaxMinuteJumps }

\* Wall-clock time passes on the screen.
passTime == ClockTo(ScreenInstants)

NextScreen ==
    \/ mountZenTimer
    \/ unmountZenTimer
    \/ visibilitychange
    \/ passTime
    \/ handleTouchStart
    \/ handleTouchMove
    \/ handleTouchEnd
    \/ longPressTimeout
    \/ handlePresetSelect
    \/ resetTimerButton
    \/ onClose
    \/ intervalTick

\* The timer as its screen drives it.
SpecScreen == Init /\ [][NextScreen]_vars

\* The screen as App renders it, with onSessionStart and onSessionComplete:
\* the sessions are reported and recorded in the focus statistics, of which
\* nothing is stored yet.
InitSessions ==
    /\ sessions = [NoSessions EXCEPT !.reporting = TRUE]
    /\ focusStats = <<>>
    /\ orphanTimers = 0
    /\ breathing = BreathingReady
    /\ timerInterval = NoInterval
    /\ visibilityState = "visible"
    /\ call = NoCall
    /\ result = <<>>
    /\ localStore = <<>>
    /\ lastSet = <<>>
    /\ initialDuration \in InitialDurations
    /\ state = InitialTimer(initialDuration)
    /\ storage = <<>>
    /\ now = ClockStart
    /\ mounted = FALSE
    /\ dispatched = "UNMOUNT"
    /\ payload = 0
    /\ isDragging = FALSE
    /\ isInDropZone = FALSE
    /\ hasMoved = FALSE
    /\ longPressTimer = FALSE
    /\ longPressTriggered = FALSE
    /\ pointerDown = FALSE
    /\ pointerInZone = FALSE

\* The instants at which the reported screen is observed: as it opens, and
\* when the shortest session it sets has run.
SessionInstants == { ClockStart, ClockStart + ScreenMinuteStep * 60 * 1000 }

\* Wall-clock time passes on the reported screen.
passSessionTime == ClockTo(SessionInstants)

\* The screen without its preset buttons.
NextSessions ==
    \/ mountZenTimer
    \/ unmountZenTimer
    \/ visibilitychange
    \/ passSessionTime
    \/ handleTouchStart
    \/ handleTouchMove
    \/ handleTouchEnd
    \/ longPressTimeout
    \/ resetTimerButton
    \/ onClose
    \/ intervalTick

SpecSessions == InitSessions /\ [][NextSessions]_vars

\* The instants at which a countdown is observed: as the screen opens, a
\* grain later, and when the shortest session has run.
TickingInstants ==
    { ClockStart, ClockStart + ClockGrain, ClockStart + ScreenMinuteStep * 60 * 1000 }

\* Wall-clock time passes while a countdown is observed.
passTickingTime == ClockTo(TickingInstants)

\* The screen while a countdown runs: the taps, the preset buttons, the
\* Reset Timer button, the page hidden and shown, the tab left and opened
\* again.
NextTicking ==
    \/ mountZenTimer
    \/ unmountZenTimer
    \/ visibilitychange
    \/ passTickingTime
    \/ handleTouchStart
    \/ handleTouchEnd
    \/ handlePresetSelect
    \/ resetTimerButton
    \/ intervalTick

\* The wall clock goes on, and the browser keeps running the callback of
\* an interval that is set (setInterval, part_005:110-128).
SpecTicking ==
    /\ Init
    /\ [][NextTicking]_vars
    /\ WF_vars(passTickingTime)
    /\ WF_vars(intervalTick)

----------------------------------------------------------------------------
(* Overlapping presses.  A touchstart while a pointer is down (a second    *)
(* finger) runs handleTouchStart again: the timeout it sets replaces the   *)
(* id in longPressTimerRef without clearing the one set before, which      *)
(* stays pending and out of reach of clearTimeout.                         *)

\* How many timeouts the model lets be pending out of reach.
MaxOrphanTimers == 1

\* touchstart on the circle while a pointer is down.
handleTouchStartOverlapping ==
    /\ mounted
    /\ pointerDown
    /\ \E onEdge \in BOOLEAN, inZone \in BOOLEAN :
          /\ pointerInZone' = inZone
          /\ IF state.status = "settings"
             THEN /\ Handler("handleTouchStart", <<>>)
                  /\ UNCHANGED <<isDragging, hasMoved, longPressTimer, longPressTriggered,
                                 orphanTimers>>
             ELSE /\ hasMoved' = FALSE
                  /\ longPressTriggered' = FALSE
                  /\ IF onEdge /\ state.status \in {"idle", "adjusting"}
                     THEN /\ isDragging' = TRUE
                          /\ Handler("handleTouchStart", <<Plain("START_ADJUST")>>)
                          /\ UNCHANGED <<longPressTimer, orphanTimers>>
                     ELSE /\ longPressTimer' = (longPressTimer \/ state.status = "idle")
                          /\ orphanTimers' =
                                IF longPressTimer /\ state.status = "idle"
                                THEN orphanTimers + 1 ELSE orphanTimers
                          /\ orphanTimers' <= MaxOrphanTimers
                          /\ Handler("handleTouchStart", <<>>)
                          /\ UNCHANGED isDragging
    /\ UNCHANGED <<isInDropZone, pointerDown>>

\* A timeout out of reach runs, 500 ms after its press in idle:
\* handleLongPress, as rendered in idle, opens the settings.
orphanTimeout ==
    /\ mounted
    /\ orphanTimers > 0
    /\ orphanTimers' = orphanTimers - 1
    /\ longPressTriggered' = TRUE
    /\ Handler("handleLongPress", <<Plain("OPEN_SETTINGS")>>)
    /\ UNCHANGED <<isDragging, isInDropZone, hasMoved, longPressTimer, pointerDown,
                   pointerInZone>>

NextPointers ==
    \/ mountZenTimer
    \/ handleTouchStart
    \/ handleTouchStartOverlapping
    \/ handleTouchMove
    \/ handleTouchEnd
    \/ longPressTimeout
    \/ orphanTimeout
    \/ onClose

\* The screen under one or two fingers.
SpecPointers == Init /\ [][NextPointers]_vars

----------------------------------------------------------------------------
(* The settings record.  A JavaScript value read from JSON is a record     *)
(* [type, val]: type is what typeof gives ("object" for null and arrays),  *)
(* val its value, a number in tenths (250 is 25, 15 is 1.5).  A settings   *)
(* object is a record of its three fields, "undefined" for a missing one.  *)

JsUndefined == [type |-> "undefined", val |-> 0]
JsNull == [type |-> "object", val |-> 0]
JsBoolean(b) == [type |-> "boolean", val |-> b]
JsString(str) == [type |-> "string", val |-> str]
JsNumber(tenths) == [type |-> "number", val |-> tenths]

\* Number.isInteger(v)
IsInteger(v) == v.type = "number" /\ v.val % 10 = 0

defaults ==
    [ soundEnabled    |-> JsBoolean(TRUE),
      theme           |-> JsString("light"),
      defaultDuration |-> JsNumber(250) ]

\* A validation that takes any integer as the default duration.
validateTimerSettings_AnyInteger(stored) ==
    IF stored = <<>> THEN defaults
    ELSE LET settings == stored[1] IN
         IF "type" \in DOMAIN settings THEN defaults
         ELSE [ soundEnabled    |-> IF settings.soundEnabled.type = "boolean"
                                    THEN settings.soundEnabled
                                    ELSE defaults.soundEnabled,
                theme           |-> IF settings.theme \in {JsString("light"), JsString("dark")}
                                    THEN settings.theme
                                    ELSE defaults.theme,
                defaultDuration |-> IF IsInteger(settings.defaultDuration)
                                    THEN settings.defaultDuration
                                    ELSE defaults.defaultDuration ]

\* A validation that keeps any string as the theme.
validateTimerSettings_AnyString(stored) ==
    IF stored = <<>> THEN defaults
    ELSE LET settings == stored[1] IN
         IF "type" \in DOMAIN settings THEN defaults
         ELSE [ soundEnabled    |-> IF settings.soundEnabled.type = "boolean"
                                    THEN settings.soundEnabled
                                    ELSE defaults.soundEnabled,
                theme           |-> IF settings.theme.type = "string"
                                    THEN settings.theme
                                    ELSE defaults.theme,
                defaultDuration |-> IF /\ IsInteger(settings.defaultDuration)
                                       /\ settings.defaultDuration.val >= 10
                                       /\ settings.defaultDuration.val <= 1200
                                    THEN settings.defaultDuration
                                    ELSE defaults.defaultDuration ]

\* stored is what getStorageItem returned: <<>> (null), a value that is not
\* an object (a record with a type), or a settings object.
validateTimerSettings(stored) ==
    IF stored = <<>> THEN defaults
    ELSE LET settings == stored[1] IN
         IF "type" \in DOMAIN settings THEN defaults
         ELSE [ soundEnabled    |-> IF settings.soundEnabled.type = "boolean"
                                    THEN settings.soundEnabled
                                    ELSE defaults.soundEnabled,
                theme           |-> IF settings.theme \in {JsString("light"), JsString("dark")}
                                    THEN settings.theme
                                    ELSE defaults.theme,
                defaultDuration |-> IF /\ IsInteger(settings.defaultDuration)
                                       /\ settings.defaultDuration.val >= 10
                                       /\ settings.defaultDuration.val <= 1200
                                    THEN settings.defaultDuration
                                    ELSE defaults.defaultDuration ]

\* ZenTimer's settings state, from the item stored under `settings`.
loadSettings(item) == validateTimerSettings(getStorageItem(item, <<>>))

\* The argument ZenTimer passes to useTimerState, minutes.
settingsDuration(settings) == settings.defaultDuration.val \div 10

\* The values a field of a stored settings object is given: of every type,
\* and numbers below, at the ends of, inside and above 1..120, one of them
\* not whole.
FieldValues ==
    { JsUndefined, JsNull, JsBoolean(TRUE), JsBoolean(FALSE),
      JsString("light"), JsString("dark"), JsString("sepia"), JsString("25"),
      JsNumber(0), JsNumber(10), JsNumber(15), JsNumber(450), JsNumber(1200),
      JsNumber(1210) }

SettingsObjects ==
    [soundEnabled : FieldValues, theme : FieldValues, defaultDuration : FieldValues]

\* What getStorageItem('settings', null) may return.
StoredSettings ==
    {<<>>} \cup { <<v>> : v \in FieldValues \ {JsUndefined, JsNull} }
           \cup { <<o>> : o \in SettingsObjects }

\* The length of the JSON text of a settings object, and one over the budget.
SettingsLength == 59
OversizedLength == MAX_VALUE_LENGTH + 1

\* Items found under the `settings` key: none, a null, a text that does not
\* parse, and settings objects of a regular and of an oversized text.
SettingsItems ==
    {<<>>, << <<>> >>, Unparsable}
      \cup { << <<o, n>> >> :
               o \in { x \in SettingsObjects :
                         /\ x.soundEnabled = JsBoolean(FALSE)
                         /\ x.theme = JsString("dark")
                         /\ x.defaultDuration.type = "number" },
               n \in {SettingsLength, OversizedLength} }

\* The page loads with any of these items under `settings`.
InitSettings ==
    /\ Untouched
    /\ initialDuration \in { settingsDuration(loadSettings(item)) : item \in SettingsItems }
    /\ state = InitialTimer(initialDuration)
    /\ storage = <<>>
    /\ now = ClockStart
    /\ mounted = FALSE
    /\ dispatched = "UNMOUNT"
    /\ payload = 0
    /\ isDragging = FALSE
    /\ isInDropZone = FALSE
    /\ hasMoved = FALSE
    /\ longPressTimer = FALSE
    /\ longPressTriggered = FALSE
    /\ pointerDown = FALSE
    /\ pointerInZone = FALSE

\* The timer screen, created from the stored settings.
SpecSettings == InitSettings /\ [][NextScreen]_vars

----------------------------------------------------------------------------
(* Steps, as seen from a pair of states.                                   *)

\* A step in which the mounted hook handled an action of the given type.
Handled(type) == mounted /\ mounted' /\ now' = now /\ dispatched' = type

\* A step in which the hook mounted.
Mounting == ~mounted /\ mounted'

\* A step in which only wall-clock time passed.
TimePassing == now' # now

\* The stored item holds a timer record; the record.
HasRecord == storage # <<>> /\ storage[1] # <<>>
Record == storage[1][1]

\* The seconds left until e at time t, floored, never below 0.
SecondsLeft(e, t) == Max(0, (e - t) \div 1000)

----------------------------------------------------------------------------
(* C1: in every state reachable through the timer's actions and restores,  *)
(* 0 <= remaining <= duration.                                             *)
C1_RemainingWithinDuration ==
    mounted => 0 <= state.remaining /\ state.remaining <= state.duration

(* C2: a tick in status running sets remaining to                          *)
(* max(0, floor((endTime - now)/1000)), whatever remaining was before; at  *)
(* 0 the status becomes completed with remaining 0; after a tick           *)
(* remaining is never negative.                                            *)
C2_TickRecomputesFromClock ==
    /\ [][ (Handled("TICK") /\ state.status = "running") =>
              LET left == SecondsLeft(state.endTime, now) IN
              /\ state'.remaining = left
              /\ state'.status = IF left <= 0 THEN "completed" ELSE "running"
              /\ state'.endTime = state.endTime ]_vars
    /\ [](dispatched = "TICK" => state.remaining >= 0)

\* A tick that arrived late: more than one second went since the last one.
C2_Witness_DelayedTick ==
    /\ dispatched = "TICK"
    /\ state.status = "running"
    /\ state.remaining + 2 <= state.duration
    /\ state.remaining = SecondsLeft(state.endTime, now)

(* C3: pause freezes time: pause in running stores the seconds left at     *)
(* that moment; time passing while paused changes nothing; resume yields   *)
(* running with the same remaining and endTime = now + remaining * 1000.   *)
C3_PauseFreezesTime ==
    [][ /\ (Handled("PAUSE") /\ state.status = "running") =>
              /\ state'.status = "paused"
              /\ state'.remaining = SecondsLeft(state.endTime, now)
        /\ (TimePassing /\ mounted /\ state.status = "paused") => state' = state
        /\ (Handled("RESUME") /\ state.status = "paused") =>
              /\ state'.status = "running"
              /\ state'.remaining = state.remaining
              /\ state'.endTime = now + state.remaining * 1000 ]_vars

\* A resume after time was spent paused, part of the countdown done.
C3_Witness_ResumedLater ==
    /\ dispatched = "RESUME"
    /\ state.status = "running"
    /\ 1 <= state.remaining /\ state.remaining < state.duration
    /\ state.endTime = now + state.remaining * 1000
    /\ state.endTime > state.startTime + state.duration * 1000

(* C4: in every state whose status is running, endTime is set.             *)
C4_RunningHasEndTime ==
    (mounted /\ state.status = "running") => Truthy(state.endTime)

\* A running state entered by restoring a persisted record.
C4_Witness_RestoredRunning ==
    /\ dispatched = "MOUNT"
    /\ state.status = "running"
    /\ Truthy(state.endTime)
    /\ now > state.startTime

(* C5: in every state whose status is paused, endTime is null, and         *)
(* neither a tick nor the passage of time changes remaining while paused.  *)
C5_PausedHasNoEndTime ==
    /\ []((mounted /\ state.status = "paused") => state.endTime = Null)
    /\ [][ (mounted /\ mounted' /\ state.status = "paused"
              /\ (TimePassing \/ dispatched' = "TICK")) =>
             (state'.status = "paused" /\ state'.remaining = state.remaining) ]_vars

\* A tick delivered while paused, after time went by, in mid-countdown.
C5_Witness_TickWhilePaused ==
    /\ dispatched = "TICK"
    /\ state.status = "paused"
    /\ now > state.pausedAt
    /\ state.remaining < state.duration
    /\ state.endTime = Null

\* The transition table: the action types listed for each status.
ListedFor(status) ==
    {"RESET"} \cup
    CASE status = "idle"       -> {"START_ADJUST", "OPEN_SETTINGS", "COMMIT", "SET_DURATION"}
      [] status = "adjusting"  -> {"SET_DURATION", "END_ADJUST", "ENTER_DROP_ZONE"}
      [] status = "committing" -> {"SET_DURATION", "EXIT_DROP_ZONE", "COMMIT", "END_ADJUST"}
      [] status = "running"    -> {"TICK", "PAUSE", "CANCEL"}
      [] status = "paused"     -> {"RESUME", "CANCEL"}
      [] status = "settings"   -> {"CLOSE_SETTINGS"}
      [] status = "completed"  -> {"COMPLETE_ACKNOWLEDGED", "CANCEL"}
      [] OTHER                 -> {}

(* C6: an action the transition table does not list for the current        *)
(* status is a no-op: the reducer returns the state unchanged.             *)
C6_UnlistedActionIsNoOp ==
    [][ \A type \in ActionTypes :
          (Handled(type) /\ type \notin ListedFor(state.status)) =>
             state' = state ]_vars

(* C7: a completed timer is left only through acknowledgeComplete or       *)
(* cancel (or the reset of the table's last row), and then to idle: no     *)
(* other action changes the status of a completed timer.                   *)
C7_CompletedLeftOnlyToIdle ==
    [][ (mounted /\ mounted' /\ state.status = "completed"
           /\ state'.status # "completed") =>
          /\ dispatched' \in {"COMPLETE_ACKNOWLEDGED", "CANCEL", "RESET"}
          /\ state'.status = "idle" ]_vars

(* C8: no action changes duration while status is running, paused or       *)
(* completed; duration is changed only by setDuration applied in idle,     *)
(* adjusting or committing.                                                *)
C8_DurationFrozenOnceRunning ==
    [][ (mounted /\ mounted' /\ state'.duration # state.duration) =>
          /\ state.status \in {"idle", "adjusting", "committing"}
          /\ dispatched' = "SET_DURATION" ]_vars

(* C9: restoring a persisted running record whose endTime is at or before  *)
(* the current time yields completed with remaining 0; remaining is never  *)
(* negative after a restore.                                               *)
C9_ExpiredRecordRestoresCompleted ==
    /\ [][ (Mounting /\ HasRecord /\ Record.status = "running"
              /\ Record.endTime # Null /\ now >= Record.endTime) =>
             (state'.status = "completed" /\ state'.remaining = 0) ]_vars
    /\ [](dispatched = "MOUNT" => state.remaining >= 0)

\* A restore at the very millisecond the countdown ends.
C9_Witness_RestoredAtEndTime ==
    /\ dispatched = "MOUNT"
    /\ state.status = "completed"
    /\ state.remaining = 0
    /\ now = state.endTime

(* C10: round trip of a running countdown: the record stored at unmount is *)
(* the running state; restoring it while time is left yields running with  *)
(* the same endTime and duration and remaining = floor((endTime-now)/1000):*)
(* k ms after any instant at which the stored remaining was exact,         *)
(* remaining is k/1000 lower, within one second.  The save of the first    *)
(* render does not lose the record.                                        *)
C10_RunningRoundTrip ==
    [][ /\ (mounted /\ ~mounted' /\ state.status = "running") =>
              (storage = << <<state>> >> /\ storage' = storage)
        /\ (~mounted /\ ~mounted') => storage' = storage
        /\ (Mounting /\ HasRecord /\ Record.status = "running"
              /\ Record.endTime # Null /\ now < Record.endTime) =>
              LET r == Record IN
              /\ state'.status = "running"
              /\ state'.endTime = r.endTime
              /\ state'.duration = r.duration
              /\ state'.startTime = r.startTime
              /\ state'.remaining = (r.endTime - now) \div 1000
              /\ storage' = << <<state'>> >>
              /\ \A t \in Instants :
                    (t <= now /\ r.remaining = (r.endTime - t) \div 1000) =>
                       /\ (r.remaining - state'.remaining) * 1000 <= (now - t) + 1000
                       /\ (r.remaining - state'.remaining) * 1000 >= (now - t) - 1000 ]_vars

\* A countdown restored a minute or more after it was committed, still
\* running, its remaining lower by the time gone.
C10_Witness_RestoredAfterGap ==
    /\ dispatched = "MOUNT"
    /\ state.status = "running"
    /\ state.endTime = state.startTime + state.duration * 1000
    /\ now >= state.startTime + 60 * 1000
    /\ state.remaining * 1000 = state.endTime - now
    /\ storage = << <<state>> >>

(* C11: restoring a persisted paused record yields status paused with      *)
(* exactly the persisted remaining and duration (the record as it was      *)
(* stored), however much time passed since the pause.                      *)
C11_PausedRestoredVerbatim ==
    [][ (Mounting /\ HasRecord /\ Record.status = "paused") =>
          /\ state' = Record
          /\ state'.status = "paused"
          /\ state'.remaining = Record.remaining
          /\ state'.duration = Record.duration
          /\ storage' = storage ]_vars

\* A timer paused part-way, restored a minute or more after the pause.
C11_Witness_RestoredLongAfterPause ==
    /\ dispatched = "MOUNT"
    /\ state.status = "paused"
    /\ state.pausedAt # Null
    /\ now >= state.pausedAt + 60 * 1000
    /\ 1 <= state.remaining
    /\ state.remaining < state.duration

\* The stored item holds a record the restore effect accepts.
Restorable ==
    /\ HasRecord
    /\ Len(storage) = 1
    /\ Record.status \in {"running", "paused"}

(* C12: a stored record of a status other than running or paused, an       *)
(* absent record and an unreadable one are discarded at startup: the       *)
(* machine starts idle with the default duration, remaining = duration.    *)
C12_OtherRecordsDiscarded ==
    [][ (Mounting /\ ~Restorable) =>
          /\ state' = InitialTimer(initialDuration)
          /\ state'.status = "idle"
          /\ state'.duration = initialDuration * 60
          /\ state'.remaining = state'.duration ]_vars

\* The page just loaded: the timer is idle at the default duration and
\* whatever the key held is gone.
C12_Witness_StartedIdle ==
    /\ dispatched = "MOUNT"
    /\ now = ClockStart
    /\ state = InitialTimer(initialDuration)
    /\ storage = << <<>> >>

C14_SetDurationClamps ==
    [][ Handled("SET_DURATION") =>
          LET m       == payload'
              seconds == IF m < 1 THEN 60 ELSE IF m > 120 THEN 7200 ELSE m * 60
          IN  /\ 60 <= seconds /\ seconds <= 7200
              /\ state' = [state EXCEPT !.duration = seconds, !.remaining = seconds] ]_vars

\* setDuration(121) was applied: two hours.
C14_Witness_ClampedAbove ==
    /\ dispatched = "SET_DURATION"
    /\ payload = 121
    /\ state.duration = 7200
    /\ state.remaining = 7200

(* C15: commit in idle or committing moves to running with startTime = the *)
(* current time, endTime = current time + duration*1000 ms, remaining =    *)
(* duration, and duration (and pausedAt) unchanged.                        *)
C15_CommitStartsCountdown ==
    [][ (Handled("COMMIT") /\ state.status \in {"idle", "committing"}) =>
          state' = [state EXCEPT !.status    = "running",
                                 !.startTime = now,
                                 !.endTime   = now + state.duration * 1000,
                                 !.remaining = state.duration] ]_vars

\* A two-minute countdown committed after the clock had moved on.
C15_Witness_CommittedLater ==
    /\ dispatched = "COMMIT"
    /\ state.status = "running"
    /\ now > ClockStart
    /\ state.startTime = now
    /\ state.duration = 120
    /\ state.endTime = now + 120 * 1000
    /\ state.remaining = 120

(* C16: cancel in running or paused, and acknowledgeComplete in completed, *)
(* move to idle with duration preserved, remaining = duration, and         *)
(* startTime, pausedAt and endTime absent.                                 *)
C16_CancelAndAcknowledgeReturnToIdle ==
    [][ ( \/ Handled("CANCEL") /\ state.status \in {"running", "paused"}
          \/ Handled("COMPLETE_ACKNOWLEDGED") /\ state.status = "completed" ) =>
          state' = [ status    |-> "idle",
                     duration  |-> state.duration,
                     remaining |-> state.duration,
                     startTime |-> Null,
                     pausedAt  |-> Null,
                     endTime   |-> Null ] ]_vars

\* A cancel after the countdown of a configured duration had been running
\* for a minute or more.
C16_Witness_CancelledConfigured ==
    /\ dispatched = "CANCEL"
    /\ state.status = "idle"
    /\ now >= ClockStart + 60 * 1000
    /\ state.duration = 7200
    /\ state.remaining = 7200
    /\ state.startTime = Null /\ state.pausedAt = Null /\ state.endTime = Null

(* C17: reset, in any status, is a hard reset to the defaults: idle, with  *)
(* duration and remaining at the default session length and no timestamps  *)
(* (unlike cancel, which keeps the configured duration).                   *)
C17_ResetRestoresDefaults ==
    [][ Handled("RESET") =>
          \/ state' = INITIAL_STATE
          \/ state' = InitialTimer(initialDuration) ]_vars

(* C18: a tick in any status other than running returns the state          *)
(* unchanged (and nothing is written).                                     *)
C18_TickOutsideRunningIsNoOp ==
    [][ (Handled("TICK") /\ state.status # "running") =>
          (state' = state /\ storage' = storage) ]_vars

\* A tick arrived while the settings were open.
C18_Witness_TickInSettings ==
    /\ dispatched = "TICK"
    /\ state.status = "settings"

(* C19: tick is idempotent at a fixed clock value: a second tick at the    *)
(* same instant gives the state the first one gave.                        *)
C19_TickIdempotent ==
    /\ [](mounted => TICK(TICK(state, now), now) = TICK(state, now))
    /\ [][ (Handled("TICK") /\ dispatched = "TICK") => state' = state ]_vars

\* A running countdown just ticked part-way: ticking again at this instant
\* gives the same state.
C19_Witness_TickedPartWay ==
    /\ dispatched = "TICK"
    /\ state.status = "running"
    /\ 1 <= state.remaining
    /\ state.remaining < state.duration
    /\ TICK(state, now) = state

\* A step in which a handler of the screen ran.
Ran(name) == mounted /\ mounted' /\ dispatched' = name

(* C20: the drag protocol.  A drag started on the circle's edge in idle    *)
(* moves status to adjusting; the pointer entering the commit zone moves   *)
(* adjusting to committing and its leaving moves committing back to        *)
(* adjusting; when the drag is released, status becomes running if and     *)
(* only if the release happened inside the commit zone, and idle           *)
(* otherwise, whatever the pointer moves in between.                       *)
C20_DragProtocol ==
    [][ /\ (Ran("handleTouchStart") /\ state.status = "idle" /\ isDragging') =>
              state'.status = "adjusting"
        /\ (Ran("handleTouchMove") /\ isDragging /\ state.status = "adjusting"
              /\ ~pointerInZone /\ pointerInZone') =>
              state'.status = "committing"
        /\ (Ran("handleTouchMove") /\ isDragging /\ state.status = "committing"
              /\ pointerInZone /\ ~pointerInZone') =>
              state'.status = "adjusting"
        /\ (Ran("handleTouchEnd") /\ isDragging) =>
              /\ state'.status = (IF pointerInZone THEN "running" ELSE "idle")
              /\ ~isDragging' ]_vars

(* C21: the periodic tick callback exists exactly while status is running: *)
(* one interval is set while the mounted timer is running and none         *)
(* otherwise (after a pause, a cancel, the completion, an unmount), never  *)
(* more than one, and a tick is issued by the callback in running only.    *)
C21_OneIntervalWhileRunning ==
    /\ [](timerInterval.active <= 1)
    /\ [](timerInterval.active = 1 <=> (mounted /\ state.status = "running"))
    /\ [](timerInterval.active = 1 => timerInterval.ref = "live")
    /\ [][ Ran("TICK") => state.status = "running" ]_vars

\* A running countdown was paused by a tap: its interval is cleared.
C21_Witness_ClearedOnPause ==
    /\ dispatched = "handleTouchEnd"
    /\ state.status = "paused"
    /\ timerInterval = NoInterval

(* C22: when the page becomes visible again while status is running, a     *)
(* tick is issued at once: remaining is recomputed from endTime, and the   *)
(* timer completes if endTime has passed; when status is not running the   *)
(* visibility event changes nothing.                                       *)
C22_VisibleAgainTicks ==
    [][ (Ran("visibilitychange") /\ visibilityState' = "visible") =>
          IF state.status = "running"
          THEN /\ state.endTime # Null
               /\ state' =
                     IF now >= state.endTime \/ SecondsLeft(state.endTime, now) = 0
                     THEN [state EXCEPT !.status = "completed", !.remaining = 0]
                     ELSE [state EXCEPT !.remaining = SecondsLeft(state.endTime, now)]
          ELSE state' = state /\ storage' = storage ]_vars

\* The page came back a minute or more after the countdown had ended: the
\* timer is completed without waiting for the interval.
C22_Witness_CompletedOnReturn ==
    /\ dispatched = "visibilitychange"
    /\ visibilityState = "visible"
    /\ state.status = "completed"
    /\ state.remaining = 0
    /\ now >= state.endTime + ClockGrain

----------------------------------------------------------------------------
(* The math utilities of the radial control.  A number that need not be    *)
(* whole is counted in tenths; an angle is counted in AngleSteps-ths of a  *)
(* full turn (2*Math.PI); a threshold is counted in hundredths.            *)

AngleSteps == 120

\* A rounding that sends a tie to the multiple below.
snapToIncrement_HalfDown(value, increment) ==
    ((2 * value + 10 * increment - 1) \div (20 * increment)) * increment * 10

\* Math.round(value / increment) * increment; Math.round takes a tie to the
\* integer above.  value and the result in tenths, increment whole.
snapToIncrement(value, increment) ==
    ((2 * value + 10 * increment) \div (20 * increment)) * increment * 10

\* The linear map alone.
angleToMinutes_Unclamped(angle, maxMinutes) ==
    (angle * maxMinutes * 10) \div AngleSteps

\* Math.max(0, Math.min(maxMinutes, angle / (2 * Math.PI) * maxMinutes)),
\* the result in tenths of a minute.
angleToMinutes(angle, maxMinutes) ==
    Max(0, Min(maxMinutes * 10, (angle * maxMinutes * 10) \div AngleSteps))

\* Math.atan2(dx, -dy), brought into 0 .. 2*Math.PI: the angle from the top,
\* clockwise.  On an axis and on a diagonal the angle is on the grid; at the
\* center dx is 0 and -dy is -0, and Math.atan2(0, -0) is Math.PI.  Anywhere
\* else the angle lies between two angles of the grid, strictly inside its
\* eighth of the turn, and the operator gives the grid angles inside that
\* eighth: the set of the angles the call may come to on the grid.
getAngleFromCenter(touchX, touchY, centerX, centerY) ==
    LET dx == touchX - centerX
        dy == touchY - centerY
        eighth == AngleSteps \div 8
        Inside(k) == (k * eighth + 1)..((k + 1) * eighth - 1)
    IN  CASE dx = 0 /\ dy < 0   -> {0}
          [] dx = 0 /\ dy >= 0  -> {4 * eighth}
          [] dx > 0 /\ dy = 0   -> {2 * eighth}
          [] dx < 0 /\ dy = 0   -> {6 * eighth}
          [] dx > 0 /\ dy < 0 /\ dx = -dy  -> {eighth}
          [] dx > 0 /\ dy > 0 /\ dx = dy   -> {3 * eighth}
          [] dx < 0 /\ dy > 0 /\ -dx = dy  -> {5 * eighth}
          [] dx < 0 /\ dy < 0 /\ dx = dy   -> {7 * eighth}
          [] dx > 0 /\ dy < 0 /\ dx < -dy  -> Inside(0)
          [] dx > 0 /\ dy < 0 /\ dx > -dy  -> Inside(1)
          [] dx > 0 /\ dy > 0 /\ dx > dy   -> Inside(2)
          [] dx > 0 /\ dy > 0 /\ dx < dy   -> Inside(3)
          [] dx < 0 /\ dy > 0 /\ -dx < dy  -> Inside(4)
          [] dx < 0 /\ dy > 0 /\ -dx > dy  -> Inside(5)
          [] dx < 0 /\ dy < 0 /\ -dx > -dy -> Inside(6)
          [] OTHER                         -> Inside(7)

\* The minutes of a drag without the minimum.
draggedMinutes_NoMinimum(angle) ==
    snapToIncrement(angleToMinutes(angle, 60), 5)

\* What handleTouchMove hands to onDurationChange while dragging, for the
\* angle of the pointer: Math.max(5, snapToIncrement(angleToMinutes(angle,
\* 60), 5)), in tenths of a minute.
draggedMinutes(angle) ==
    Max(50, snapToIncrement(angleToMinutes(angle, 60), 5))

\* A band without its two ends.
isOnCircleEdge_OpenBand(x, y, centerX, centerY, radius, threshold) ==
    LET dx == x - centerX
        dy == y - centerY
        squared == dx * dx + dy * dy
        inner == radius * (100 - threshold)
    IN  /\ inner < 0 \/ 10000 * squared > inner * inner
        /\ 100 * squared < 121 * radius * radius

\* distance >= radius * (1 - threshold) && distance <= radius * 1.1, with
\* distance = Math.sqrt(dx * dx + dy * dy): compared by their squares.
isOnCircleEdge(x, y, centerX, centerY, radius, threshold) ==
    LET dx == x - centerX
        dy == y - centerY
        squared == dx * dx + dy * dy
        inner == radius * (100 - threshold)
    IN  /\ inner <= 0 \/ 10000 * squared >= inner * inner
        /\ 100 * squared <= 121 * radius * radius

\* A string is the sequence of its characters.
DigitCharacters == <<"0", "1", "2", "3", "4", "5", "6", "7", "8", "9">>

\* n.toString(), n a whole number not below 0.
RECURSIVE toString(_)
toString(n) ==
    IF n < 10 THEN <<DigitCharacters[n + 1]>>
    ELSE toString(n \div 10) \o <<DigitCharacters[(n % 10) + 1]>>

\* str.padStart(targetLength, padString), padString one character.
RECURSIVE padStart(_, _, _)
padStart(str, targetLength, padString) ==
    IF Len(str) >= targetLength THEN str
    ELSE padStart(<<padString>> \o str, targetLength, padString)

\* A clock whose minutes start again at 60.
formatTime_ClockMinutes(totalSeconds) ==
    LET mins == (totalSeconds \div 60) % 60
        secs == totalSeconds % 60
    IN  padStart(toString(mins), 2, "0") \o <<":">> \o padStart(toString(secs), 2, "0")

\* formatTime(totalSeconds), totalSeconds a whole number not below 0.
formatTime(totalSeconds) ==
    LET mins == totalSeconds \div 60
        secs == totalSeconds % 60
    IN  padStart(toString(mins), 2, "0") \o <<":">> \o padStart(toString(secs), 2, "0")

----------------------------------------------------------------------------
(* The utilities called on their own: one call, then its result.           *)

\* The values snapped, in tenths: below 0, through 0..60, and above.
SnapValues == -60..660
SnapIncrements == {2, 5, 10}

\* Angles from a quarter turn below 0 to a quarter turn past a full turn.
Angles == (0 - AngleSteps \div 4)..(AngleSteps + AngleSteps \div 4)
MaxMinutesInputs == {12, 60, 120}

\* Pointer offsets from the center: on an axis, or the legs of a right
\* triangle whose hypotenuse is whole (42,56: 70; 45,60: 75; 63,84: 105;
\* 66,88: 110; 78,104: 130).
Offsets ==
    {0, 42, 45, 56, 60, 63, 65, 66, 69, 70, 71, 75, 78, 84, 88, 104, 105,
     109, 110, 111, 115, 143, 144}
Centers == {<<0, 0>>, <<160, 200>>}
Radii == {100, 130}
Thresholds == {30, 35}

\* The longest time shown: the 120 minutes SET_DURATION allows.
MaxFormatSeconds == 7200

\* Pointer offsets of a drag, from the center.
DragOffsets == {-100, -56, -42, -1, 0, 1, 42, 56, 100}

Calls ==
    { [fn |-> "validateTimerSettings", stored |-> x] : x \in StoredSettings }
      \cup { [fn |-> "loadSettings", item |-> i] : i \in SettingsItems }
      \cup { [fn |-> "snapToIncrement", value |-> v, increment |-> i] :
               v \in SnapValues, i \in SnapIncrements }
      \cup { [fn |-> "angleToMinutes", angle |-> a, maxMinutes |-> m] :
               a \in Angles, m \in MaxMinutesInputs }
      \cup { [fn |-> "isOnCircleEdge", dx |-> dx * sx, dy |-> dy * sy,
              center |-> c, radius |-> r, threshold |-> t] :
               dx \in Offsets, dy \in Offsets, sx \in {-1, 1}, sy \in {-1, 1},
               c \in Centers, r \in Radii, t \in Thresholds }
      \cup { [fn |-> "formatTime", totalSeconds |-> n] : n \in 0..MaxFormatSeconds }
      \cup { [fn |-> "handleTouchMove", dx |-> dx, dy |-> dy, center |-> c] :
               dx \in DragOffsets, dy \in DragOffsets, c \in Centers }

\* The timer untouched beside the utilities.
Unstarted ==
    /\ timerInterval = NoInterval
    /\ visibilityState = "visible"
    /\ initialDuration \in InitialDurations
    /\ state = InitialTimer(initialDuration)
    /\ storage = <<>>
    /\ now = ClockStart
    /\ mounted = FALSE
    /\ dispatched = "UNMOUNT"
    /\ payload = 0
    /\ isDragging = FALSE
    /\ isInDropZone = FALSE
    /\ hasMoved = FALSE
    /\ longPressTimer = FALSE
    /\ longPressTriggered = FALSE
    /\ pointerDown = FALSE
    /\ pointerInZone = FALSE

timer == <<state, storage, now, mounted, initialDuration, dispatched, payload,
           gesture, timerInterval, visibilityState, recorded, breathing>>

InitCalls ==
    /\ Unstarted
    /\ Quiet
    /\ call \in Calls
    /\ result = <<>>
    /\ localStore = <<>>
    /\ lastSet = <<>>

\* The call returns r.
Returns(fn, r) ==
    /\ call.fn = fn
    /\ result = <<>>
    /\ result' = <<r>>
    /\ UNCHANGED <<call, localStore, lastSet, timer>>

callValidateTimerSettings ==
    /\ call.fn = "validateTimerSettings"
    /\ Returns("validateTimerSettings", validateTimerSettings(call.stored))

callLoadSettings ==
    /\ call.fn = "loadSettings"
    /\ Returns("loadSettings", loadSettings(call.item))

callSnapToIncrement ==
    /\ call.fn = "snapToIncrement"
    /\ Returns("snapToIncrement", snapToIncrement(call.value, call.increment))

callAngleToMinutes ==
    /\ call.fn = "angleToMinutes"
    /\ Returns("angleToMinutes", angleToMinutes(call.angle, call.maxMinutes))

callIsOnCircleEdge ==
    /\ call.fn = "isOnCircleEdge"
    /\ Returns("isOnCircleEdge",
               isOnCircleEdge(call.center[1] + call.dx, call.center[2] + call.dy,
                              call.center[1], call.center[2],
                              call.radius, call.threshold))

callFormatTime ==
    /\ call.fn = "formatTime"
    /\ Returns("formatTime", formatTime(call.totalSeconds))

\* handleTouchMove while dragging, up to its call of onDurationChange: the
\* result is the minutes it hands over.
callHandleTouchMove ==
    /\ call.fn = "handleTouchMove"
    /\ \E angle \in getAngleFromCenter(call.center[1] + call.dx, call.center[2] + call.dy,
                                        call.center[1], call.center[2]) :
          Returns("handleTouchMove", draggedMinutes(angle))

NextCalls ==
    \/ callHandleTouchMove
    \/ callValidateTimerSettings
    \/ callLoadSettings
    \/ callSnapToIncrement
    \/ callAngleToMinutes
    \/ callIsOnCircleEdge
    \/ callFormatTime

\* Every utility on every input above.
SpecCalls == InitCalls /\ [][NextCalls]_vars

----------------------------------------------------------------------------
(* The key-value store: localStorage behind getStorageItem, setStorageItem *)
(* and removeStorageItem.  A key is a JavaScript value, a string being the *)
(* sequence of its characters.                                             *)

STORAGE_PREFIX == <<"z", "e", "n", "_", "t", "i", "m", "e", "r", "_">>

\* The characters /[^a-zA-Z0-9_]/g leaves in a key.
KeyCharacters ==
    {"a", "b", "c", "d", "e", "f", "g", "h", "i", "j", "k", "l", "m",
     "n", "o", "p", "q", "r", "s", "t", "u", "v", "w", "x", "y", "z",
     "A", "B", "C", "D", "E", "F", "G", "H", "I", "J", "K", "L", "M",
     "N", "O", "P", "Q", "R", "S", "T", "U", "V", "W", "X", "Y", "Z",
     "0", "1", "2", "3", "4", "5", "6", "7", "8", "9", "_"}

IsKeyCharacter(c) == c \in KeyCharacters

\* sanitizeKey throws for a key that is not a string,
sanitizeKeyThrows(key) == key.type # "string"

\* and otherwise returns the prefix and what is left of the key.
sanitizeKey(key) == STORAGE_PREFIX \o SelectSeq(key.val, IsKeyCharacter)

\* The value undefined: JSON.stringify returns undefined for it, and reading
\* the length of that throws.
Undefined == <<JsUndefined, 0>>
stringifyThrows(value) == value = Undefined

\* What setStorageItem(key, value) returns; writeFails when
\* localStorage.setItem throws (quota exceeded, storage disabled).
setStorageItemResult(key, value, writeFails) ==
    /\ ~sanitizeKeyThrows(key)
    /\ ~stringifyThrows(value)
    /\ JsonLength(value) <= MAX_VALUE_LENGTH
    /\ ~writeFails

\* A write that does not wait for the checks of length and of the write.
localStorageAfterSet_Unchecked(store, key, value, writeFails) ==
    IF ~sanitizeKeyThrows(key) /\ ~stringifyThrows(value)
    THEN [store EXCEPT ![sanitizeKey(key)] = <<value>>]
    ELSE store

\* localStorage after setStorageItem(key, value).
localStorageAfterSet(store, key, value, writeFails) ==
    IF setStorageItemResult(key, value, writeFails)
    THEN [store EXCEPT ![sanitizeKey(key)] = setStorageItem(@, value)]
    ELSE store

\* A read that parses whatever is stored.
getStorageItemResult_Unguarded(store, key, defaultValue) ==
    IF sanitizeKeyThrows(key) THEN defaultValue
    ELSE IF store[sanitizeKey(key)] = <<>> THEN defaultValue
    ELSE store[sanitizeKey(key)][1]

\* What getStorageItem(key, defaultValue) returns.
getStorageItemResult(store, key, defaultValue) ==
    IF sanitizeKeyThrows(key) THEN defaultValue
    ELSE getStorageItem(store[sanitizeKey(key)], defaultValue)

\* localStorage after removeStorageItem(key).
localStorageAfterRemove(store, key) ==
    IF sanitizeKeyThrows(key) THEN store
    ELSE [store EXCEPT ![sanitizeKey(key)] = <<>>]

\* Keys the application uses, and one that is not a string.
Keys ==
    { JsString(<<"t", "h", "e", "m", "e">>),
      JsString(<<"f", "o", "c", "u", "s", "_", "s", "t", "a", "t", "s">>),
      JsNumber(70) }
StorageKeys == { sanitizeKey(key) : key \in { k \in Keys : ~sanitizeKeyThrows(k) } }

\* Values set: null, a short record, records whose JSON text is as long as
\* and one longer than the budget, and undefined.
SetValues ==
    { <<>>, <<[id |-> 1], 9>>, <<[id |-> 2], MAX_VALUE_LENGTH>>,
      <<[id |-> 3], OversizedLength>>, Undefined }

\* Default values asked for: null and an empty array.
DefaultValues == { <<>>, <<[id |-> 0], 2>> }

\* What may lie under a key when the page loads, besides what an earlier
\* setStorageItem stored: nothing, a text that does not parse, and a text
\* longer than the budget.
FoundItems == { <<>>, Unparsable, << <<[id |-> 4], OversizedLength>> >> }

InitStore ==
    /\ Unstarted
    /\ Quiet
    /\ call = NoCall
    /\ result = <<>>
    /\ localStore \in [StorageKeys -> FoundItems]
    /\ lastSet = [key \in Keys |-> <<>>]

callSetStorageItem ==
    \E key \in Keys, value \in SetValues, writeFails \in BOOLEAN :
      /\ call' = [fn |-> "setStorageItem", key |-> key, value |-> value,
                  writeFails |-> writeFails]
      /\ result' = <<setStorageItemResult(key, value, writeFails)>>
      /\ localStore' = localStorageAfterSet(localStore, key, value, writeFails)
      /\ lastSet' = IF setStorageItemResult(key, value, writeFails)
                    THEN [lastSet EXCEPT ![key] = <<value>>]
                    ELSE lastSet
      /\ UNCHANGED timer

callGetStorageItem ==
    \E key \in Keys, defaultValue \in DefaultValues :
      /\ call' = [fn |-> "getStorageItem", key |-> key, defaultValue |-> defaultValue]
      /\ result' = <<getStorageItemResult(localStore, key, defaultValue)>>
      /\ UNCHANGED <<localStore, lastSet, timer>>

callRemoveStorageItem ==
    \E key \in Keys :
      /\ call' = [fn |-> "removeStorageItem", key |-> key]
      /\ result' = <<>>
      /\ localStore' = localStorageAfterRemove(localStore, key)
      /\ UNCHANGED <<lastSet, timer>>

\* The hook mounts beside the store.
mountStore ==
    /\ mountHook
    /\ UNCHANGED <<timerInterval, recorded>>

\* The actions dispatched while the store takes no write.
UnsavedActions ==
    { Plain(type) : type \in {"START_ADJUST", "COMMIT", "PAUSE", "RESUME", "CANCEL", "RESET"} }

\* dispatch(a) by a mounted hook whose save effect writes to a store that
\* throws: setStorageItem returns false, which the effect does not read.
dispatchUnsaved ==
    \E a \in UnsavedActions :
      /\ mounted
      /\ ~ReturnsSameObject(state, a)
      /\ state' = timerReducer(state, a, now)
      /\ storage' = storage
      /\ dispatched' = a.type
      /\ payload' = a.minutes
      /\ call' = [fn |-> "saveEffect", writeFails |-> TRUE]
      /\ result' = <<FALSE>>
      /\ UNCHANGED <<now, mounted, initialDuration, gesture, timerInterval,
                     visibilityState, localStore, lastSet, recorded, breathing>>

NextStore ==
    \/ callSetStorageItem
    \/ callGetStorageItem
    \/ callRemoveStorageItem
    \/ mountStore
    \/ dispatchUnsaved

\* The store under the calls of a session.
SpecStore == InitStore /\ [][NextStore]_vars

----------------------------------------------------------------------------
(* The two recording callbacks called on their own, as App's               *)
(* handleSessionStart and handleSessionComplete call them, one session     *)
(* after the other.                                                        *)

\* The durations recorded, in seconds.
StatsDurations == {300, 1500}

\* How many recordings the model follows.
MaxRecordings == 8

\* What a recording leaves alone.
unrecorded ==
    <<state, storage, now, mounted, initialDuration, dispatched, payload, gesture,
      timerInterval, visibilityState, result, localStore, lastSet, breathing>>

InitStats ==
    /\ Unstarted
    /\ sessions = [NoSessions EXCEPT !.reporting = TRUE]
    /\ focusStats = <<>>
    /\ orphanTimers = 0
    /\ breathing = BreathingReady
    /\ call = NoCall
    /\ result = <<>>
    /\ localStore = <<>>
    /\ lastSet = <<>>

\* handleSessionStart(durationSeconds)
callRecordStart ==
    /\ sessions.started + sessions.completed < MaxRecordings
    /\ \E durationSeconds \in StatsDurations :
          /\ call' = [fn |-> "recordStart", durationSeconds |-> durationSeconds]
          /\ focusStats' = recordStart(focusStats, durationSeconds)
    /\ sessions' = [sessions EXCEPT !.started = @ + 1]
    /\ UNCHANGED unrecorded

\* handleSessionComplete(durationSeconds)
callRecordSession ==
    /\ sessions.started + sessions.completed < MaxRecordings
    /\ \E durationSeconds \in StatsDurations :
          /\ call' = [fn |-> "recordSession", durationSeconds |-> durationSeconds]
          /\ focusStats' = recordSession(focusStats, durationSeconds)
          /\ sessions' = [sessions EXCEPT !.completed = @ + 1,
                                          !.time = @ + durationSeconds]
    /\ UNCHANGED unrecorded

NextStats ==
    \/ callRecordStart
    \/ callRecordSession

\* The statistics under every order of recordings.
SpecStats == InitStats /\ [][NextStats]_vars

----------------------------------------------------------------------------
(* The breathing exercise: BreathingExercise's phase, pattern and cycle    *)
(* count, and the timeout of its phase timer, counted in seconds.          *)

PATTERNS ==
    [ calm     |-> [inhale |-> 4, hold |-> 4, exhale |-> 4, holdOut |-> 0],
      relaxed  |-> [inhale |-> 4, hold |-> 7, exhale |-> 8, holdOut |-> 0],
      energize |-> [inhale |-> 6, hold |-> 0, exhale |-> 2, holdOut |-> 0] ]

\* How many cycles the model counts.
MaxCycles == 2

getPhaseDuration(b) ==
    IF b.phase \in {"inhale", "hold", "exhale", "holdOut"}
    THEN PATTERNS[b.pattern][b.phase]
    ELSE 0

\* A nextPhase that never holds.
nextPhase_NeverHolds(b) ==
    CASE b.phase = "ready"   -> [b EXCEPT !.phase = "inhale"]
      [] b.phase = "holdOut" -> [b EXCEPT !.phase = "inhale", !.cycleCount = @ + 1]
      [] b.phase = "inhale"  -> [b EXCEPT !.phase = "exhale"]
      [] b.phase = "hold"    -> [b EXCEPT !.phase = "exhale"]
      [] b.phase = "exhale"  ->
           [b EXCEPT !.phase = IF PATTERNS[b.pattern].holdOut > 0
                               THEN "holdOut" ELSE "inhale",
                     !.cycleCount = @ + 1]
      [] OTHER               -> [b EXCEPT !.phase = "inhale"]

nextPhase(b) ==
    CASE b.phase = "ready"   -> [b EXCEPT !.phase = "inhale"]
      [] b.phase = "holdOut" -> [b EXCEPT !.phase = "inhale", !.cycleCount = @ + 1]
      [] b.phase = "inhale"  ->
           [b EXCEPT !.phase = IF PATTERNS[b.pattern].hold > 0
                               THEN "hold" ELSE "exhale"]
      [] b.phase = "hold"    -> [b EXCEPT !.phase = "exhale"]
      [] b.phase = "exhale"  ->
           [b EXCEPT !.phase = IF PATTERNS[b.pattern].holdOut > 0
                               THEN "holdOut" ELSE "inhale",
                     !.cycleCount = @ + 1]
      [] OTHER               -> [b EXCEPT !.phase = "inhale"]

\* The phase timer effect after a render that changed isActive, phase or
\* pattern: the cleanup clears the timeout of the run before; the body
\* returns when the exercise is not active or ready, goes on to the next
\* phase at once when the phase has no length, and sets the timeout of the
\* phase otherwise.
RECURSIVE phaseTimerEffect(_)
phaseTimerEffect(b) ==
    IF ~b.isActive \/ b.phase = "ready"
    THEN [b EXCEPT !.timer = FALSE, !.left = 0, !.elapsed = 0]
    ELSE IF getPhaseDuration(b) = 0
    THEN phaseTimerEffect(nextPhase(b))
    ELSE [b EXCEPT !.timer = TRUE, !.left = getPhaseDuration(b), !.elapsed = 0]

\* What the breathing exercise leaves alone.
unbreathed ==
    <<state, storage, now, mounted, initialDuration, dispatched, payload, gesture,
      timerInterval, visibilityState, call, result, localStore, lastSet, recorded>>

\* The exercise stopped: isActive false, phase ready, cycleCount 0, the
\* timeout cleared.
stopped(b) ==
    [b EXCEPT !.isActive = FALSE, !.phase = "ready", !.cycleCount = 0]

\* A tap on the circle stops an active exercise and starts one otherwise.
handleCircleTap ==
    /\ breathing' =
          IF breathing.isActive
          THEN phaseTimerEffect(stopped(breathing))
          ELSE phaseTimerEffect([breathing EXCEPT !.isActive = TRUE,
                                                  !.phase = "inhale",
                                                  !.cycleCount = 0])
    /\ UNCHANGED unbreathed

\* A pattern button.
handlePatternChange ==
    /\ \E key \in DOMAIN PATTERNS :
          /\ key # breathing.pattern
          /\ breathing' =
                LET chosen == [breathing EXCEPT !.pattern = key]
                IN  phaseTimerEffect(IF breathing.isActive THEN stopped(chosen)
                                     ELSE chosen)
    /\ UNCHANGED unbreathed

\* A second passes while the timeout of the phase is pending.
breatheSecond ==
    /\ breathing.timer
    /\ breathing.left > 0
    /\ breathing' = [breathing EXCEPT !.left = @ - 1, !.elapsed = @ + 1]
    /\ UNCHANGED unbreathed

\* The timeout of the phase runs: nextPhase, and the effect of the render
\* that follows.
phaseTimeout ==
    /\ breathing.timer
    /\ breathing.left = 0
    /\ breathing' = phaseTimerEffect(nextPhase(breathing))
    /\ breathing'.cycleCount <= MaxCycles
    /\ UNCHANGED unbreathed

NextBreathing ==
    \/ handleCircleTap
    \/ handlePatternChange
    \/ breatheSecond
    \/ phaseTimeout

SpecBreathing == Init /\ [][NextBreathing]_vars

\* The call made has returned.
Returned(fn) == call.fn = fn /\ result # <<>>

(* C23: in every reachable state duration is a whole number of seconds in  *)
(* 60..7200 and a multiple of 60, whether it comes from the default, from  *)
(* the stored settings, from a preset or from a radial drag (and so is the *)
(* duration of the stored record).                                         *)
C23_DurationWholeMinutes ==
    /\ state.duration \in 60..7200
    /\ state.duration % 60 = 0
    /\ HasRecord => (Record.duration \in 60..7200 /\ Record.duration % 60 = 0)

\* A timer created from stored settings of 120 minutes, running.
C23_Witness_RunningFromSettings ==
    /\ initialDuration = 120
    /\ state.status = "running"
    /\ state.duration = 7200

\* The key the store files a string key under.
Prefixed(key) == STORAGE_PREFIX \o key.val

\* The text of the value is longer than the budget of 1000 characters.
OverBudget(value) == value # <<>> /\ value[2] > 1000

(* C24: setStorageItem(key, value) never throws and returns a boolean:     *)
(* true after storing the serialized value under the prefixed key; false,  *)
(* with the value stored before left as it was, when the serialized value  *)
(* is longer than 1000 characters or the write fails.  A failed write      *)
(* leaves the timer's in-memory state alone: a dispatch whose save fails   *)
(* still moves the state as the reducer says.                              *)
C24_SetReportsSuccess ==
    [][ /\ (call'.fn = "setStorageItem" /\ mounted' = mounted) =>
             LET key == call'.key
                 value == call'.value
                 refused == \/ key.type # "string"
                            \/ value = Undefined
                            \/ OverBudget(value)
                            \/ call'.writeFails
             IN  /\ result' \in {<<TRUE>>, <<FALSE>>}
                 /\ result' = <<FALSE>> <=> refused
                 /\ result' = <<TRUE>> =>
                      /\ localStore'[Prefixed(key)] = <<value>>
                      /\ \A k \in StorageKeys \ {Prefixed(key)} : localStore'[k] = localStore[k]
                 /\ result' = <<FALSE>> => localStore' = localStore
                 /\ state' = state
                 /\ storage' = storage
        /\ (call'.fn = "saveEffect" /\ mounted' = mounted) =>
             /\ result' = <<FALSE>>
             /\ state' = timerReducer(state, [type |-> dispatched', minutes |-> payload'], now)
             /\ storage' = storage ]_vars

\* A write that failed for want of room left the value set before it.
C24_Witness_FailedWriteKeepsValue ==
    /\ call.fn = "setStorageItem"
    /\ call.key.type = "string"
    /\ call.writeFails
    /\ ~OverBudget(call.value)
    /\ result = <<FALSE>>
    /\ lastSet[call.key] # <<>>
    /\ localStore[Prefixed(call.key)] = lastSet[call.key]
    /\ call.value # lastSet[call.key][1]

ValidSoundEnabled == {JsBoolean(TRUE), JsBoolean(FALSE)}
ValidTheme == {JsString("light"), JsString("dark")}
ValidDefaultDuration == { JsNumber(10 * m) : m \in 1..120 }

\* The field of a stored value, "undefined" when the value is no object.
Given(stored, field) ==
    IF stored = <<>> \/ "type" \in DOMAIN stored[1] THEN JsUndefined ELSE stored[1][field]

\* An item under `settings` that holds no settings object: none, one that is
\* unreadable or oversized, or a stored null.
Unusable(item) ==
    \/ item = <<>>
    \/ Len(item) > 1
    \/ item[1] = <<>>
    \/ (Len(item[1]) = 2 /\ item[1][2] > 1000)

(* C26: validateTimerSettings returns soundEnabled a boolean, theme light  *)
(* or dark and defaultDuration a whole number in 1..120; a field that is   *)
(* missing or invalid, and every field of a missing, oversized or          *)
(* unreadable settings record, is its default (true, light, 25), a valid   *)
(* field is kept; the timer's initial duration is defaultDuration*60       *)
(* seconds; validating a validated record returns it unchanged.            *)
C26_SettingsValidated ==
    /\ Returned("validateTimerSettings") =>
         LET s == result[1]
             stored == call.stored
         IN  /\ s.soundEnabled \in ValidSoundEnabled
             /\ s.theme \in ValidTheme
             /\ s.defaultDuration \in ValidDefaultDuration
             /\ s.soundEnabled =
                  IF Given(stored, "soundEnabled") \in ValidSoundEnabled
                  THEN Given(stored, "soundEnabled") ELSE JsBoolean(TRUE)
             /\ s.theme =
                  IF Given(stored, "theme") \in ValidTheme
                  THEN Given(stored, "theme") ELSE JsString("light")
             /\ s.defaultDuration =
                  IF Given(stored, "defaultDuration") \in ValidDefaultDuration
                  THEN Given(stored, "defaultDuration") ELSE JsNumber(250)
             /\ validateTimerSettings(<<s>>) = s
             /\ InitialTimer(settingsDuration(s)).duration * 10 = s.defaultDuration.val * 60
             /\ InitialTimer(settingsDuration(s)).remaining * 10 = s.defaultDuration.val * 60
    /\ Returned("loadSettings") =>
         LET s == result[1]
             item == call.item
         IN  /\ Unusable(item) =>
                  s = [ soundEnabled |-> JsBoolean(TRUE), theme |-> JsString("light"),
                        defaultDuration |-> JsNumber(250) ]
             /\ ~Unusable(item) =>
                  /\ s.soundEnabled = Given(<<item[1][1]>>, "soundEnabled")
                  /\ s.theme = Given(<<item[1][1]>>, "theme")
                  /\ s.defaultDuration =
                       IF Given(<<item[1][1]>>, "defaultDuration") \in ValidDefaultDuration
                       THEN Given(<<item[1][1]>>, "defaultDuration") ELSE JsNumber(250)

\* A stored object with a null sound flag and a duration of 1.5 minutes
\* comes back with both replaced and its dark theme kept.
C26_Witness_FieldsReplaced ==
    /\ Returned("validateTimerSettings")
    /\ call.stored = << [ soundEnabled |-> JsNull, theme |-> JsString("dark"),
                          defaultDuration |-> JsNumber(15) ] >>
    /\ result = << [ soundEnabled |-> JsBoolean(TRUE), theme |-> JsString("dark"),
                     defaultDuration |-> JsNumber(250) ] >>

(* C27: snapToIncrement(value, increment) is the multiple of increment     *)
(* nearest to value, a tie going to the multiple above; for a whole value  *)
(* in 0..60 and increment 5 it is a multiple of 5 at most 2 away;          *)
(* snapToIncrement(32, 5) = 30 and snapToIncrement(33, 5) = 35.            *)
C27_SnapsToNearest ==
    Returned("snapToIncrement") =>
      LET r == result[1]
          v == call.value
          step == 10 * call.increment
          away == IF r >= v THEN r - v ELSE v - r
      IN  /\ r % step = 0
          /\ 2 * away <= step
          /\ 2 * away = step => r > v
          /\ (v % 10 = 0 /\ v \in 0..600 /\ call.increment = 5) => away <= 20
          /\ (v = 320 /\ call.increment = 5) => r = 300
          /\ (v = 330 /\ call.increment = 5) => r = 350

\* 2.5 lies midway between 0 and 5 and snaps to 5.
C27_Witness_TieRoundsUp ==
    /\ Returned("snapToIncrement")
    /\ call.value = 25
    /\ call.increment = 5
    /\ result = <<50>>

(* C28: isOnCircleEdge is true exactly when the pointer's distance from    *)
(* the center lies in the closed band [radius*(1-threshold), radius*1.1];  *)
(* for radius 100 and threshold 0.3 points at distance 75 and 105 are on   *)
(* the edge, points at distance 65 and 115 are not.                        *)
C28_OnEdgeInClosedBand ==
    Returned("isOnCircleEdge") =>
      LET squared == call.dx * call.dx + call.dy * call.dy
          below == CHOOSE f \in 0..300 : f * f <= squared /\ squared < (f + 1) * (f + 1)
          whole == below * below = squared
          inner == call.radius * (100 - call.threshold)
          outer == call.radius * 110
          onEdge == result[1]
      IN  /\ whole => (onEdge <=> (100 * below >= inner /\ 100 * below <= outer))
          /\ (100 * below >= inner /\ 100 * (below + 1) <= outer) => onEdge
          /\ 100 * (below + 1) <= inner => ~onEdge
          /\ 100 * below > outer => ~onEdge
          /\ (call.radius = 100 /\ call.threshold = 30) =>
               /\ squared \in {75 * 75, 105 * 105, 70 * 70, 110 * 110} => onEdge
               /\ squared \in {65 * 65, 115 * 115, 69 * 69, 111 * 111} => ~onEdge

\* A pointer at distance exactly 110 from the center of a circle of radius
\* 100 is on the edge.
C28_Witness_OuterEnd ==
    /\ Returned("isOnCircleEdge")
    /\ call.dx = 66
    /\ call.dy = -88
    /\ call.radius = 100
    /\ call.threshold = 30
    /\ result = <<TRUE>>

(* C29: angleToMinutes(angle, maxMinutes) is angle/(2*pi)*maxMinutes       *)
(* clamped to [0, maxMinutes]: never below 0 nor above maxMinutes, and     *)
(* angleToMinutes(pi, 60) = 30.                                            *)
C29_AngleClamped ==
    Returned("angleToMinutes") =>
      LET r == result[1]
          a == call.angle
          m == call.maxMinutes
      IN  /\ r >= 0
          /\ r <= 10 * m
          /\ a \in 0..AngleSteps => r * AngleSteps = a * m * 10
          /\ a < 0 => r = 0
          /\ a > AngleSteps => r = 10 * m
          /\ (2 * a = AngleSteps /\ m = 60) => r = 300

\* An angle a quarter turn past the full turn gives maxMinutes.
C29_Witness_ClampedAbove ==
    /\ Returned("angleToMinutes")
    /\ call.angle > AngleSteps
    /\ call.maxMinutes = 60
    /\ result = <<600>>

\* The number a string of digits writes, -1 when it is not one.
RECURSIVE parseDigits(_)
parseDigits(str) ==
    IF str = <<>> THEN 0
    ELSE LET last == str[Len(str)]
             front == parseDigits(SubSeq(str, 1, Len(str) - 1))
         IN  IF front < 0 \/ \A d \in 1..10 : DigitCharacters[d] # last THEN -1
             ELSE 10 * front + (CHOOSE d \in 0..9 : DigitCharacters[d + 1] = last)

(* C30: formatTime(totalSeconds) writes floor(totalSeconds/60), neither    *)
(* reduced modulo 60 nor capped at 59, then ":", then totalSeconds mod 60, *)
(* each padded with zeros to at least two digits, for every totalSeconds   *)
(* in 0..7200: 1500 gives "25:00", 59 gives "00:59", 7200 gives "120:00".  *)
C30_ClockText ==
    Returned("formatTime") =>
      LET text == result[1]
          n == call.totalSeconds
          minutes == SubSeq(text, 1, Len(text) - 3)
          seconds == SubSeq(text, Len(text) - 1, Len(text))
      IN  /\ Len(text) >= 5
          /\ text[Len(text) - 2] = ":"
          /\ parseDigits(seconds) = n % 60
          /\ parseDigits(minutes) = n \div 60
          /\ Len(minutes) = IF n < 6000 THEN 2 ELSE 3
          /\ n = 1500 => text = <<"2", "5", ":", "0", "0">>
          /\ n = 59 => text = <<"0", "0", ":", "5", "9">>
          /\ n = 7200 => text = <<"1", "2", "0", ":", "0", "0">>

\* Two hours are written with a three-digit minutes field.
C30_Witness_TwoHours ==
    /\ Returned("formatTime")
    /\ call.totalSeconds = 7200
    /\ result = << <<"1", "2", "0", ":", "0", "0">> >>

(* C36: in every reachable state whose status is paused, remaining >= 1:   *)
(* a pause never leaves a countdown with no time remaining, also when it   *)
(* comes after endTime has passed and before a tick was delivered.         *)
C36_PausedHasTimeLeft ==
    state.status = "paused" => state.remaining >= 1

(* C35: each countdown that reaches completed triggers the completion     *)
(* side effects exactly once: the step that brings the status to           *)
(* completed, by a tick or by the restore of a mount, calls                *)
(* onSessionComplete once with the duration of the countdown and notifies  *)
(* once; no other step (a cancel, a pause, an acknowledgement, a render in *)
(* completed) calls either.                                                *)
C35_CompletionReportedOnce ==
    [][ IF state.status # "completed" /\ state'.status = "completed"
        THEN /\ sessions'.completed = sessions.completed + 1
             /\ sessions'.notified = sessions.notified + 1
             /\ sessions'.time = sessions.time + state'.duration
        ELSE /\ sessions'.completed = sessions.completed
             /\ sessions'.notified = sessions.notified
             /\ sessions'.time = sessions.time ]_vars

\* A countdown was found completed by the restore of a mount and reported,
\* and one before it was cancelled.
C35_Witness_ReportedOnRestore ==
    /\ mounted
    /\ dispatched = "MOUNT"
    /\ state.status = "completed"
    /\ sessions.completed = 1
    /\ sessions.notified = 1
    /\ sessions.time = state.duration
    /\ sessions.started = 2

(* C37: in the stored focus statistics sessionsCompleted never exceeds     *)
(* sessionsStarted.                                                        *)
C37_CompletedWereStarted ==
    storedStats(focusStats).sessionsCompleted <= storedStats(focusStats).sessionsStarted

(* C38: every recorded start and completion is reflected in the stored    *)
(* focus_stats record: sessionsStarted and sessionsCompleted are the       *)
(* numbers of recorded starts and completions, totalFocusTime is the sum   *)
(* of the recorded durations, and the history holds one entry for each,    *)
(* up to 100.                                                              *)
C38_StatsFollowRecordings ==
    LET stored == storedStats(focusStats) IN
    /\ stored.sessionsStarted = sessions.started
    /\ stored.sessionsCompleted = sessions.completed
    /\ stored.totalFocusTime = sessions.time
    /\ Len(stored.history) = Min(100, sessions.started + sessions.completed)

(* C32: under every interleaving of presses, moves, releases and          *)
(* long-press timeouts the status becomes settings only from idle, and     *)
(* settings is left only by closing the overlay, to idle.                  *)
C32_SettingsOnlyFromIdle ==
    [][ /\ (state.status # "settings" /\ state'.status = "settings")
            => state.status = "idle"
        /\ (state.status = "settings" /\ state'.status # "settings")
            => (state'.status = "idle" /\ dispatched' = "onClose") ]_vars

\* The state after the one action a tap is to issue in status s.status.
TapOutcome(s, t) ==
    CASE s.status = "idle"      -> COMMIT(s, t)
      [] s.status = "running"   -> PAUSE(s, t)
      [] s.status = "paused"    -> RESUME(s, t)
      [] s.status = "completed" -> COMPLETE_ACKNOWLEDGED(s)
      [] OTHER                  -> s

\* A pointer is down that neither moved, nor lasted as a long press, nor
\* drags, in a status in which a tap has an action to issue (and the
\* sessions the model follows are not used up).
TapAwaited ==
    /\ mounted
    /\ pointerDown
    /\ ~isDragging
    /\ ~hasMoved
    /\ ~longPressTriggered
    /\ state.status \in {"idle", "running", "paused", "completed"}
    /\ sessions.started < MaxSessions

\* The release is a tap and issues the action of the status.
TapIssued ==
    /\ handleTouchEnd
    /\ state' = TapOutcome(state, now)
    /\ state' # state

(* C33: a release that counts as a tap issues the one action of the       *)
(* current status (commit in idle, after the start was reported; pause in  *)
(* running; resume in paused; acknowledgeComplete in completed; nothing in *)
(* adjusting, committing and settings); a release of a touch that moved or *)
(* lasted as a long press issues none of them (in running it may be the    *)
(* flick that cancels), the release of a drag ends the drag, and a session *)
(* start is reported by nothing but the tap in idle.                       *)
C33_TapIssuesOneAction ==
    /\ [](TapAwaited => ENABLED <<TapIssued>>_vars)
    /\ [][ /\ Ran("handleTouchEnd") =>
                LET tapped ==
                      /\ state' = TapOutcome(state, now)
                      /\ sessions'.started =
                            sessions.started + (IF state.status = "idle" THEN 1 ELSE 0)
                    untapped ==
                      /\ sessions'.started = sessions.started
                      /\ \/ state' = state
                         \/ state.status = "running" /\ state' = CANCEL(state)
                IN  IF isDragging
                    THEN /\ sessions'.started = sessions.started
                         /\ state' = IF isInDropZone THEN COMMIT(state, now)
                                     ELSE END_ADJUST(state)
                    ELSE IF hasMoved \/ longPressTriggered THEN untapped
                    ELSE tapped \/ untapped
           /\ sessions'.started # sessions.started =>
                Ran("handleTouchEnd") /\ state.status = "idle" /\ ~isDragging ]_vars

\* A tap in idle reported the start and committed, and a tap in running
\* paused the countdown.
C33_Witness_StartedThenPaused ==
    /\ dispatched = "handleTouchEnd"
    /\ state.status = "paused"
    /\ sessions.started = 1
    /\ ~hasMoved
    /\ ~longPressTriggered

(* C34: every duration a radial drag requests is a whole multiple of 5     *)
(* minutes from 5 to 60, wherever the pointer is around the center (the    *)
(* center itself included).                                                *)
C34_DragRequestsFiveToSixty ==
    Returned("handleTouchMove") =>
        /\ result[1] % 50 = 0
        /\ result[1] >= 50
        /\ result[1] <= 600

\* The pointer is straight above the center: the angle is 0, it snaps to 0
\* minutes, and 5 are requested.
C34_Witness_RaisedToFive ==
    /\ Returned("handleTouchMove")
    /\ call.dx = 0
    /\ call.dy < 0
    /\ result = <<50>>

\* The phase that is to follow a phase of a pattern: inhale, hold, exhale,
\* hold-out and inhale again, without the phases of length 0.
PhaseAfter(pattern, phase) ==
    CASE phase = "inhale" -> IF PATTERNS[pattern].hold > 0 THEN "hold" ELSE "exhale"
      [] phase = "hold"   -> "exhale"
      [] phase = "exhale" -> IF PATTERNS[pattern].holdOut > 0 THEN "holdOut" ELSE "inhale"
      [] OTHER            -> "inhale"

(* C39: while the exercise is active the phase changes only to the phase   *)
(* that follows it in the order inhale, hold, exhale, hold-out (a phase of *)
(* length 0 left out), and only when the phase has lasted its configured   *)
(* seconds; cycleCount grows by exactly one when a cycle is through and    *)
(* inhale begins again, and changes at no other step of an active          *)
(* exercise.                                                               *)
C39_PhasesInOrder ==
    [][ (breathing.isActive /\ breathing'.isActive) =>
          /\ breathing'.pattern = breathing.pattern
          /\ PATTERNS[breathing.pattern][breathing'.phase] > 0
          /\ IF breathing'.phase # breathing.phase
             THEN /\ breathing'.phase = PhaseAfter(breathing.pattern, breathing.phase)
                  /\ breathing.elapsed = PATTERNS[breathing.pattern][breathing.phase]
                  /\ breathing'.cycleCount =
                        breathing.cycleCount
                          + (IF breathing'.phase = "inhale" THEN 1 ELSE 0)
             ELSE breathing'.cycleCount = breathing.cycleCount ]_vars

\* Two cycles of the pattern without a hold are through.
C39_Witness_TwoCycles ==
    /\ breathing.isActive
    /\ breathing.pattern = "energize"
    /\ breathing.cycleCount = 2
    /\ breathing.phase = "exhale"
    /\ breathing.elapsed = 1

\* The last instant at which a countdown is observed.
Horizon == ClockStart + ScreenMinuteStep * 60 * 1000

\* A countdown runs on the screen and ends within the clock of the model.
Counting ==
    /\ mounted
    /\ state.status = "running"
    /\ state.endTime # Null
    /\ state.endTime <= Horizon

\* The user (or the tab going away) took the countdown out of running.
Interrupted ==
    \/ ~mounted
    \/ state.status \in {"idle", "paused", "settings", "adjusting", "committing"}

(* C31: a countdown that runs, whether a commit, a resume or a restore     *)
(* started it, comes to completed with remaining = 0 unless a user action  *)
(* takes it out of running first, as long as the clock goes on and the     *)
(* interval's ticks are delivered; and only a user action (a tap, a flick, *)
(* the Reset Timer button, leaving the tab) takes it out of running        *)
(* otherwise.                                                              *)
C31_RunningCompletes ==
    /\ Counting ~> ((state.status = "completed" /\ state.remaining = 0) \/ Interrupted)
    /\ [][ (Counting /\ Interrupted') =>
             dispatched' \in {"handleTouchEnd", "resetTimerButton", "UNMOUNT"} ]_vars

\* A countdown that was paused and resumed (its endTime is no longer its
\* startTime and its duration) was completed by a tick of the interval.
C31_Witness_ResumedThenCompleted ==
    /\ mounted
    /\ dispatched = "TICK"
    /\ state.status = "completed"
    /\ state.remaining = 0
    /\ state.startTime # Null
    /\ state.endTime # state.startTime + state.duration * 1000
    /\ now = Horizon

====
